---- MODULE Spec2Model ----
(***************************************************************************)
(* blindrop-crypto: the atomic counter protocol.                           *)
(*                                                                         *)
(* The two Lua scripts ATOMIC_DECREMENT_SCRIPT and                         *)
(* ATOMIC_INCREMENT_WITH_LIMIT_SCRIPT are modelled statement by statement  *)
(* over a key-value store with expiry.  A script runs as one step of the   *)
(* store (EVAL is atomic); callers submit requests concurrently and the    *)
(* store serialises them in any order, while time passes in between.       *)
(***************************************************************************)
EXTENDS Integers, Sequences, FiniteSets, Bags

(***************************************************************************)
(* Bounds of the model.                                                    *)
(***************************************************************************)
\* largest viewsRemaining / max_count drawn
MaxCount == 3
\* largest expiry, in seconds, drawn for a record or passed as expire_seconds
MaxExpire == 1
\* clock resolution: the store's clock advances in steps of 1000/TicksPerSecond ms
TicksPerSecond == 4
\* number of EVAL requests submitted in one behaviour
MaxCalls == 4
\* number of requests that can be in flight at the same time
MaxInflight == 2

TickMs == 1000 \div TicksPerSecond

(***************************************************************************)
(* Lua values.  Every value carries its Lua type; a string carries the     *)
(* value its text denotes as JSON (or Undecodable when it is not JSON).    *)
(***************************************************************************)
LuaNil == [type |-> "nil", num |-> 0]
LuaFalse == [type |-> "boolean", num |-> 0]
LuaTrue == [type |-> "boolean", num |-> 1]
\* cjson.null, a lightuserdata
LuaNull == [type |-> "userdata", num |-> 0]
LuaNumber(n) == [type |-> "number", num |-> n]
\* the number n + 1/2
Fractional(n) == [type |-> "number", num |-> n, fraction |-> TRUE]
\* the number has no fractional part
IsInteger(v) == "fraction" \notin DOMAIN v
Undecodable == [type |-> "undecodable", num |-> 0]
LuaString(j) == [type |-> "string", json |-> j]
\* a string that is neither JSON nor the text of a number
JunkString == LuaString(Undecodable)

\* what another field of a record can hold, as JSON: a string, an empty
\* array, an empty object
Payloads == {"ciphertext", "[]", "{}"}

\* the Lua table with no entries, which both [] and {} decode to
EmptyTable == "table: empty"

\* the secret record as a Lua table: viewsRemaining is a Lua value (nil when
\* the field is missing), payload stands for every other field
SecretTable(vr, p) == [type |-> "table", viewsRemaining |-> vr, payload |-> p]
ResultTable(secret, burned) == [type |-> "table", secret |-> secret, burned |-> burned]
ErrorTable(reason) == [type |-> "table", error |-> reason]

type(v) == v.type

\* Lua truthiness: only nil and false are false
Truthy(v) == ~(v = LuaNil \/ v = LuaFalse)

\* tonumber(s): the number a string is the text of, or nil
tonumber(v) ==
    IF type(v) = "number" THEN v
    ELSE IF type(v) = "string" /\ type(v.json) = "number" THEN v.json
    ELSE LuaNil

\* cjson.encode(v): the JSON text of v; an empty table is written as {}
cjson_encode(v) ==
    LET Encoded(t) ==
            IF type(t) = "table" /\ "payload" \in DOMAIN t
            THEN [t EXCEPT !.payload = IF @ = EmptyTable THEN "{}" ELSE @]
            ELSE t
    IN  LuaString(IF type(v) = "table" /\ "secret" \in DOMAIN v
                  THEN [v EXCEPT !.secret = Encoded(@)]
                  ELSE Encoded(v))

\* pcall(cjson.decode, data): ok and the decoded value, or not ok
pcall_cjson_decode(data) ==
    IF type(data) = "string" /\ data.json # Undecodable
    THEN [ok |-> TRUE,
          value |-> IF type(data.json) = "table" /\ "payload" \in DOMAIN data.json
                    THEN [data.json EXCEPT
                             !.payload = IF @ \in {"[]", "{}"} THEN EmptyTable ELSE @]
                    ELSE data.json]
    ELSE [ok |-> FALSE, value |-> LuaNil]

\* v.field raises "attempt to index a ... value" unless v is a table or a
\* string (strings share a metatable whose __index is the string library)
Indexable(v) == type(v) \in {"table", "string"}

\* secret.viewsRemaining
IndexViewsRemaining(v) ==
    IF type(v) = "table" /\ "viewsRemaining" \in DOMAIN v THEN v.viewsRemaining
    ELSE LuaNil

(***************************************************************************)
(* The store: every key holds a string with an expiry, or nothing.         *)
(* pttl is the remaining life in ms, -1 for none, -2 for an absent key.    *)
(***************************************************************************)
SecretKeys == {"secret:abc123"}
CounterKeys == {"ratelimit:192.168.1.1"}
Keys == SecretKeys \cup CounterKeys

Absent == [val |-> LuaFalse, pttl |-> -2]
Entry(s, pttl) == [val |-> s, pttl |-> pttl]
Present(e) == e # Absent

\* redis.call('GET', key): the string, or false
GET(st, key) == st[key].val

\* mutant: every key is deleted
DEL_All(st, key) == [k \in DOMAIN st |-> Absent]

\* redis.call('DEL', key)
DEL(st, key) == [st EXCEPT ![key] = Absent]

\* redis.call('SET', key, value): drops any expiry the key had
SET(st, key, value) == [st EXCEPT ![key] = Entry(value, -1)]

\* redis.call('SET', key, value, 'EX', seconds)
SET_EX(st, key, value, seconds) == [st EXCEPT ![key] = Entry(value, seconds * 1000)]

\* redis.call('TTL', key): -2 absent, -1 no expiry, else the remaining
\* milliseconds rounded to the nearest second
Seconds(pttl) == IF pttl < 0 THEN pttl ELSE (pttl + 500) \div 1000

TTL(st, key) == Seconds(st[key].pttl)

\* redis.call('INCR', key): an absent key counts as 0; the expiry is kept
INCR(st, key) ==
    IF Present(st[key])
    THEN [st EXCEPT ![key].val = LuaString(LuaNumber(tonumber(@).num + 1))]
    ELSE [st EXCEPT ![key] = Entry(LuaString(LuaNumber(1)), -1)]

\* redis.call('EXPIRE', key, seconds)
EXPIRE(st, key, seconds) ==
    IF Present(st[key]) THEN [st EXCEPT ![key].pttl = seconds * 1000] ELSE st

(***************************************************************************)
(* What EVAL hands back: the script's return value, or an error reply when *)
(* the script raised.                                                      *)
(***************************************************************************)
Return(st, v) == [store |-> st, reply |-> v]
ScriptError == [type |-> "script_error", num |-> 0]

(***************************************************************************)
(* ATOMIC_DECREMENT_SCRIPT                                                 *)
(***************************************************************************)
\* mutant: the counter is not decremented
Decremented_Unchanged(secret) == secret

\* secret.viewsRemaining = secret.viewsRemaining - 1
Decremented(secret) ==
    [secret EXCEPT !.viewsRemaining = LuaNumber(@.num - 1)]

\* mutant: < 0 in place of <= 0
Exhausted_Strict(secret) == secret.viewsRemaining.num < 0

\* if secret.viewsRemaining <= 0
Exhausted(secret) == secret.viewsRemaining.num <= 0

\* mutant: the DEL is missing
BurnBranch_KeepsKey(st, key, secret) ==
    LET clamped == [secret EXCEPT !.viewsRemaining = LuaNumber(0)]
    IN  Return(st, cjson_encode(ResultTable(clamped, TRUE)))

\* mutant: the decremented value is returned as it is, not clamped
BurnBranch_NoClamp(st, key, secret) ==
    Return(DEL(st, key), cjson_encode(ResultTable(secret, TRUE)))

\* mutant: the burned record is written back with viewsRemaining = 0
BurnBranch_WritesZero(st, key, secret) ==
    LET clamped == [secret EXCEPT !.viewsRemaining = LuaNumber(0)]
    IN  Return(SET(st, key, cjson_encode(clamped)), cjson_encode(ResultTable(clamped, TRUE)))

\* the burn branch: DEL, clamp to 0, {secret, burned = true}
BurnBranch(st, key, secret) ==
    LET clamped == [secret EXCEPT !.viewsRemaining = LuaNumber(0)]
    IN  Return(DEL(st, key), cjson_encode(ResultTable(clamped, TRUE)))

\* mutant: the record is written back as it was read
UpdateBranch_Stale(st, key, secret) ==
    LET ttl == TTL(st, key)
        written == IF ttl > 0 THEN SET_EX(st, key, GET(st, key), ttl)
                   ELSE SET(st, key, GET(st, key))
    IN  Return(written, cjson_encode(ResultTable(secret, FALSE)))

\* mutant: the update branch reports burned = true
UpdateBranch_SaysBurned(st, key, secret) ==
    LET ttl == TTL(st, key)
        written == IF ttl > 0 THEN SET_EX(st, key, cjson_encode(secret), ttl)
                   ELSE SET(st, key, cjson_encode(secret))
    IN  Return(written, cjson_encode(ResultTable(secret, TRUE)))

\* the update branch: rewrite the record, with 'EX', ttl when TTL reports > 0
UpdateBranch(st, key, secret) ==
    LET ttl == TTL(st, key)
        written == IF ttl > 0
                   THEN SET_EX(st, key, cjson_encode(secret), ttl)
                   ELSE SET(st, key, cjson_encode(secret))
    IN  Return(written, cjson_encode(ResultTable(secret, FALSE)))

ATOMIC_DECREMENT_SCRIPT(st, key) ==
    LET data == GET(st, key)
        decoded == pcall_cjson_decode(data)
        secret == decoded.value
    IN  IF ~Truthy(data) THEN Return(st, LuaNil)
        ELSE IF ~decoded.ok THEN Return(st, cjson_encode(ErrorTable("invalid_json")))
        ELSE IF ~Indexable(secret) THEN Return(st, ScriptError)
        ELSE IF type(IndexViewsRemaining(secret)) # "number"
             THEN Return(st, cjson_encode(ErrorTable("invalid_viewsRemaining_type")))
        ELSE IF Exhausted(Decremented(secret))
             THEN BurnBranch(st, key, Decremented(secret))
             ELSE UpdateBranch(st, key, Decremented(secret))

(***************************************************************************)
(* ATOMIC_INCREMENT_WITH_LIMIT_SCRIPT                                      *)
(***************************************************************************)
\* if not max_count or not expire_seconds
MissingArguments(max_count, expire_seconds) ==
    ~Truthy(max_count) \/ ~Truthy(expire_seconds)

\* mutant: < 0 in place of <= 0
InvalidArguments_Strict(max_count, expire_seconds) ==
    max_count.num < 0 \/ expire_seconds.num < 0

\* if max_count <= 0 or expire_seconds <= 0
InvalidArguments(max_count, expire_seconds) ==
    max_count.num <= 0 \/ expire_seconds.num <= 0

\* mutant: > in place of >=
LimitReached_Late(current, max_count) ==
    Truthy(current) /\ tonumber(current).num > max_count.num

\* mutant: the limit is compared with the count before the last increment
LimitReached_OffByOne(current, max_count) ==
    Truthy(current) /\ tonumber(current).num - 1 >= max_count.num

\* if current and tonumber(current) >= max_count
LimitReached(current, max_count) ==
    Truthy(current) /\ tonumber(current).num >= max_count.num

\* mutant: EXPIRE on every increment
IncrementBranch_AlwaysExpires(st, key, expire_seconds) ==
    LET counted == INCR(st, key)
    IN  Return(EXPIRE(counted, key, expire_seconds.num), tonumber(GET(counted, key)))

\* INCR, then EXPIRE when new_count == 1; EXPIRE raises "value is not an
\* integer or out of range" for seconds with a fractional part, and what the
\* script wrote before stays written
IncrementBranch(st, key, expire_seconds) ==
    LET counted == INCR(st, key)
        new_count == tonumber(GET(counted, key))
    IN  IF new_count.num = 1
        THEN IF IsInteger(expire_seconds)
             THEN Return(EXPIRE(counted, key, expire_seconds.num), new_count)
             ELSE Return(counted, ScriptError)
        ELSE Return(counted, new_count)

\* mutant: a rejected call sets the expiry anew
ATOMIC_INCREMENT_WITH_LIMIT_SCRIPT_RejectRenews(st, key, argv1, argv2) ==
    LET max_count == tonumber(argv1)
        expire_seconds == tonumber(argv2)
        current == GET(st, key)
    IN  IF MissingArguments(max_count, expire_seconds)
        THEN Return(st, cjson_encode(ErrorTable("missing_arguments")))
        ELSE IF InvalidArguments(max_count, expire_seconds)
        THEN Return(st, cjson_encode(ErrorTable("invalid_arguments")))
        ELSE IF Truthy(current) /\ tonumber(current) = LuaNil THEN Return(st, ScriptError)
        ELSE IF LimitReached(current, max_count)
        THEN Return(EXPIRE(st, key, expire_seconds.num), LuaNumber(-1))
        ELSE IncrementBranch(st, key, expire_seconds)

ATOMIC_INCREMENT_WITH_LIMIT_SCRIPT(st, key, argv1, argv2) ==
    LET max_count == tonumber(argv1)
        expire_seconds == tonumber(argv2)
        current == GET(st, key)
    IN  IF MissingArguments(max_count, expire_seconds)
        THEN Return(st, cjson_encode(ErrorTable("missing_arguments")))
        ELSE IF InvalidArguments(max_count, expire_seconds)
        THEN Return(st, cjson_encode(ErrorTable("invalid_arguments")))
        \* comparing nil with a number, or INCR of a non-integer, raises
        ELSE IF Truthy(current) /\ tonumber(current) = LuaNil THEN Return(st, ScriptError)
        ELSE IF LimitReached(current, max_count) THEN Return(st, LuaNumber(-1))
        ELSE IncrementBranch(st, key, expire_seconds)

(***************************************************************************)
(* crypto.ts: texts are sequences of UTF-16 code units, buffers are        *)
(* sequences of bytes.                                                     *)
(***************************************************************************)
KEY_LENGTH == 256

IV_LENGTH == 12

KEY_BYTES == KEY_LENGTH \div 8

MAX_PLAINTEXT_BYTES == 1024 * 1024

\* U+FFFD, what the UTF-8 coders put in place of what they cannot code
REPLACEMENT == 65533

IsHighSurrogate(u) == u \in 55296..56319

IsLowSurrogate(u) == u \in 56320..57343

\* the UTF-8 bytes of one code point
Utf8(cp) ==
    IF cp < 128 THEN <<cp>>
    ELSE IF cp < 2048 THEN <<192 + (cp \div 64), 128 + (cp % 64)>>
    ELSE IF cp < 65536
         THEN <<224 + (cp \div 4096), 128 + ((cp \div 64) % 64), 128 + (cp % 64)>>
    ELSE <<240 + (cp \div 262144), 128 + ((cp \div 4096) % 64),
           128 + ((cp \div 64) % 64), 128 + (cp % 64)>>

\* encoder.encode(plaintext): a surrogate pair is one code point, a surrogate
\* on its own is encoded as U+FFFD
RECURSIVE TextEncoder_encode(_)
TextEncoder_encode(s) ==
    IF s = <<>> THEN <<>>
    ELSE IF IsHighSurrogate(s[1]) /\ Len(s) >= 2 /\ IsLowSurrogate(s[2])
         THEN Utf8(65536 + (s[1] - 55296) * 1024 + (s[2] - 56320))
              \o TextEncoder_encode(SubSeq(s, 3, Len(s)))
    ELSE IF IsHighSurrogate(s[1]) \/ IsLowSurrogate(s[1])
         THEN Utf8(REPLACEMENT) \o TextEncoder_encode(Tail(s))
    ELSE Utf8(s[1]) \o TextEncoder_encode(Tail(s))

\* the code units of one code point
CodeUnits(cp) ==
    IF cp < 65536 THEN <<cp>>
    ELSE <<55296 + ((cp - 65536) \div 1024), 56320 + ((cp - 65536) % 1024)>>

\* the UTF-8 decoder at the head of b: the number of bytes it takes and the
\* code point it gives, U+FFFD for a sequence that is no UTF-8
Utf8Head(b) ==
    LET b1 == b[1]
        need == IF b1 < 128 THEN 0
                ELSE IF b1 \in 194..223 THEN 1
                ELSE IF b1 \in 224..239 THEN 2
                ELSE IF b1 \in 240..244 THEN 3
                ELSE -1
        lower == IF b1 = 224 THEN 160 ELSE IF b1 = 240 THEN 144 ELSE 128
        upper == IF b1 = 237 THEN 159 ELSE IF b1 = 244 THEN 143 ELSE 191
        Continues(i) ==
            /\ i <= Len(b)
            /\ IF i = 2 THEN b[i] \in lower..upper ELSE b[i] \in 128..191
        matched == CHOOSE n \in 0..need :
                      /\ \A i \in 2..(n + 1) : Continues(i)
                      /\ n = need \/ ~Continues(n + 2)
        lead == IF need = 1 THEN b1 - 192
                ELSE IF need = 2 THEN b1 - 224
                ELSE b1 - 240
        Value(i) == IF i > need + 1 THEN 0 ELSE b[i] - 128
    IN  IF need = -1 THEN [used |-> 1, cp |-> REPLACEMENT]
        ELSE IF need = 0 THEN [used |-> 1, cp |-> b1]
        ELSE IF matched < need THEN [used |-> matched + 1, cp |-> REPLACEMENT]
        ELSE IF need = 1 THEN [used |-> 2, cp |-> lead * 64 + Value(2)]
        ELSE IF need = 2
             THEN [used |-> 3, cp |-> lead * 4096 + Value(2) * 64 + Value(3)]
        ELSE [used |-> 4,
              cp |-> lead * 262144 + Value(2) * 4096 + Value(3) * 64 + Value(4)]

RECURSIVE Utf8Decode(_)
Utf8Decode(b) ==
    IF b = <<>> THEN <<>>
    ELSE LET head == Utf8Head(b)
         IN  CodeUnits(head.cp) \o Utf8Decode(SubSeq(b, head.used + 1, Len(b)))

\* the UTF-8 byte order mark
BOM == <<239, 187, 191>>

\* decoder.decode(buffer), of new TextDecoder(): a byte order mark at the
\* start is taken off, what is no UTF-8 becomes U+FFFD, nothing is raised
TextDecoder_decode(b) ==
    IF Len(b) >= 3 /\ SubSeq(b, 1, 3) = BOM
    THEN Utf8Decode(SubSeq(b, 4, Len(b)))
    ELSE Utf8Decode(b)

\* the characters the base64 codec names
PLUS == 43

SLASH == 47

MINUS == 45

UNDERSCORE == 95

PAD == 61

\* btoa's alphabet: the character of a 6-bit value
B64Char(v) ==
    IF v < 26 THEN 65 + v
    ELSE IF v < 52 THEN 97 + (v - 26)
    ELSE IF v < 62 THEN 48 + (v - 52)
    ELSE IF v = 62 THEN PLUS
    ELSE SLASH

\* atob's alphabet: the 6-bit value of a character, -1 for any other
B64Value(c) ==
    IF c \in 65..90 THEN c - 65
    ELSE IF c \in 97..122 THEN c - 97 + 26
    ELSE IF c \in 48..57 THEN c - 48 + 52
    ELSE IF c = PLUS THEN 62
    ELSE IF c = SLASH THEN 63
    ELSE -1

\* btoa(binary): three bytes give four characters, a rest of one or two
\* bytes is padded with =
RECURSIVE btoa(_)
btoa(b) ==
    IF Len(b) = 0 THEN <<>>
    ELSE IF Len(b) = 1
         THEN <<B64Char(b[1] \div 4), B64Char((b[1] % 4) * 16), PAD, PAD>>
    ELSE IF Len(b) = 2
         THEN <<B64Char(b[1] \div 4), B64Char((b[1] % 4) * 16 + (b[2] \div 16)),
                B64Char((b[2] % 16) * 4), PAD>>
    ELSE <<B64Char(b[1] \div 4), B64Char((b[1] % 4) * 16 + (b[2] \div 16)),
           B64Char((b[2] % 16) * 4 + (b[3] \div 64)), B64Char(b[3] % 64)>>
         \o btoa(SubSeq(b, 4, Len(b)))

Replace(s, from, to) == [i \in 1..Len(s) |-> IF s[i] = from THEN to ELSE s[i]]

\* .replace(/=+$/, "")
RECURSIVE StripPadding(_)
StripPadding(s) ==
    IF s # <<>> /\ s[Len(s)] = PAD THEN StripPadding(SubSeq(s, 1, Len(s) - 1))
    ELSE s

\* mutant: the standard alphabet is kept
bufferToBase64Url_Standard(bytes) == StripPadding(btoa(bytes))

bufferToBase64Url(bytes) ==
    StripPadding(Replace(Replace(btoa(bytes), PLUS, MINUS), SLASH, UNDERSCORE))

\* the bytes of a run of 6-bit values: 24 bits give three bytes, a rest of 12
\* or 18 bits gives one or two and its last 4 or 2 bits are dropped
RECURSIVE SextetsToBytes(_)
SextetsToBytes(v) ==
    IF Len(v) <= 1 THEN <<>>
    ELSE IF Len(v) = 2 THEN <<v[1] * 4 + (v[2] \div 16)>>
    ELSE IF Len(v) = 3
         THEN <<v[1] * 4 + (v[2] \div 16), (v[2] % 16) * 16 + (v[3] \div 4)>>
    ELSE <<v[1] * 4 + (v[2] \div 16), (v[2] % 16) * 16 + (v[3] \div 4),
           (v[3] % 4) * 64 + v[4]>>
         \o SextetsToBytes(SubSeq(v, 5, Len(v)))

\* tab, line feed, form feed, carriage return and space
AsciiWhitespace == {9, 10, 12, 13, 32}

\* atob(base64): white space is taken out; one or two = at the end of a text
\* whose length is a multiple of 4 are taken off; a rest of 1 or a character
\* outside the alphabet raises
atob(s) ==
    LET t == SelectSeq(s, LAMBDA c : c \notin AsciiWhitespace)
        n == Len(t)
        pads == IF n % 4 = 0 /\ n >= 2 /\ t[n] = PAD
                THEN (IF t[n - 1] = PAD THEN 2 ELSE 1)
                ELSE 0
        u == SubSeq(t, 1, n - pads)
    IN  IF Len(u) % 4 = 1 \/ \E i \in 1..Len(u) : B64Value(u[i]) = -1
        THEN [error |-> "InvalidCharacterError", value |-> <<>>]
        ELSE [error |-> "none",
              value |-> SextetsToBytes([i \in 1..Len(u) |-> B64Value(u[i])])]

base64UrlToBuffer(base64url) ==
    LET base64 == Replace(Replace(base64url, MINUS, PLUS), UNDERSCORE, SLASH)
        padding == Len(base64) % 4
        padded == IF padding = 2 THEN base64 \o <<PAD, PAD>>
                  ELSE IF padding = 3 THEN base64 \o <<PAD>>
                  ELSE base64
    IN  IF padding = 1 THEN [error |-> "InvalidBase64Error", value |-> <<>>]
        ELSE IF atob(padded).error # "none"
             THEN [error |-> "InvalidBase64Error", value |-> <<>>]
        ELSE atob(padded)

\* what a library function gives back: a value, or the error it throws
Ok(v) == [error |-> "none", value |-> v]

Throw(kind) == [error |-> kind, value |-> <<>>]

\* JavaScript values a caller can pass
JsUndefined == [type |-> "undefined"]

JsNull == [type |-> "null"]

JsNumber(n) == [type |-> "number", num |-> n]

JsString(s) == [type |-> "string", text |-> s]

\* a CryptoKey of AES-GCM: its raw bytes
CryptoKey(raw) == [raw |-> raw]

\* the authentication tag of AES-GCM has 128 bits
TAG_LENGTH == 16

\* AES-GCM stands here as an ideal authenticated cipher over bytes: the
\* keystream and the tag are fixed by key, iv and text, and two different
\* (key, iv, ciphertext) never have the same tag
Keystream(key, iv, i) ==
    (key.raw[((i - 1) % KEY_BYTES) + 1] + iv[((i - 1) % IV_LENGTH) + 1] + i) % 256

RECURSIVE Digest(_)
Digest(body) ==
    IF body = <<>> THEN 1
    ELSE (Digest(SubSeq(body, 1, Len(body) - 1))
          + body[Len(body)] * (2 * Len(body) + 1) + 1) % 256

Tag(key, iv, body) ==
    [j \in 1..TAG_LENGTH |->
        (Digest(body) * (2 * j + 1) + key.raw[j] + 3 * key.raw[j + TAG_LENGTH]
         + 5 * iv[((j - 1) % IV_LENGTH) + 1]) % 256]

\* crypto.subtle.encrypt({name: ALGORITHM, iv}, key, data): ciphertext, then tag
subtle_encrypt(key, iv, data) ==
    LET body == [i \in 1..Len(data) |-> (data[i] + Keystream(key, iv, i)) % 256]
    IN  body \o Tag(key, iv, body)

\* mutant: the tag is not verified
subtle_decrypt_Unauthenticated(key, iv, data) ==
    LET n == Len(data) - TAG_LENGTH
        body == SubSeq(data, 1, n)
    IN  IF n < 0 THEN Throw("OperationError")
        ELSE Ok([i \in 1..n |-> (body[i] + 256 - Keystream(key, iv, i)) % 256])

\* crypto.subtle.decrypt({name: ALGORITHM, iv}, key, data): raises unless the
\* tag is the one of this key, iv and ciphertext
subtle_decrypt(key, iv, data) ==
    LET n == Len(data) - TAG_LENGTH
        body == SubSeq(data, 1, n)
    IN  IF n < 0 THEN Throw("OperationError")
        ELSE IF SubSeq(data, n + 1, Len(data)) # Tag(key, iv, body)
             THEN Throw("OperationError")
        ELSE Ok([i \in 1..n |-> (body[i] + 256 - Keystream(key, iv, i)) % 256])

\* mutant: the payload is refused from maxBytes on
encrypt_RejectsAtLimit(plaintext, key, options, random) ==
    LET maxBytes == IF options = JsUndefined THEN MAX_PLAINTEXT_BYTES
                    ELSE options.maxBytes
        data == TextEncoder_encode(plaintext)
    IN  IF Len(data) >= maxBytes
        THEN [error |-> "PayloadTooLargeError", value |-> <<>>, drawn |-> 0]
        ELSE [error |-> "none",
              value |-> [version |-> 1,
                         ciphertext |-> bufferToBase64Url(subtle_encrypt(key, random, data)),
                         iv |-> bufferToBase64Url(random)],
              drawn |-> 1]

\* mutant: the iv is a fixed one, nothing is drawn
encrypt_StaticIV(plaintext, key, options, random) ==
    LET maxBytes == IF options = JsUndefined THEN MAX_PLAINTEXT_BYTES
                    ELSE options.maxBytes
        data == TextEncoder_encode(plaintext)
        iv == [i \in 1..IV_LENGTH |-> 0]
    IN  IF Len(data) > maxBytes
        THEN [error |-> "PayloadTooLargeError", value |-> <<>>, drawn |-> 0]
        ELSE [error |-> "none",
              value |-> [version |-> 1,
                         ciphertext |-> bufferToBase64Url(subtle_encrypt(key, iv, data)),
                         iv |-> bufferToBase64Url(iv)],
              drawn |-> 0]

\* encrypt(plaintext, key, options); random is what crypto.getRandomValues
\* gives when it is called, drawn is the number of times it was called
encrypt(plaintext, key, options, random) ==
    LET maxBytes == IF options = JsUndefined THEN MAX_PLAINTEXT_BYTES
                    ELSE options.maxBytes
        data == TextEncoder_encode(plaintext)
    IN  IF Len(data) > maxBytes
        THEN [error |-> "PayloadTooLargeError", value |-> <<>>, drawn |-> 0]
        ELSE [error |-> "none",
              value |-> [version |-> 1,
                         ciphertext |-> bufferToBase64Url(subtle_encrypt(key, random, data)),
                         iv |-> bufferToBase64Url(random)],
              drawn |-> 1]

\* mutant: what crypto.subtle.decrypt throws is not caught
decrypt_Uncaught(ciphertext, iv, key) ==
    LET ciphertextArray == base64UrlToBuffer(ciphertext)
        ivArray == base64UrlToBuffer(iv)
    IN  IF ciphertextArray.error # "none" THEN Throw("InvalidBase64Error")
        ELSE IF ivArray.error # "none" THEN Throw("InvalidBase64Error")
        ELSE IF Len(ivArray.value) # IV_LENGTH THEN Throw("InvalidIVError")
        ELSE LET decryptedBuffer ==
                     subtle_decrypt(key, ivArray.value, ciphertextArray.value)
             IN  IF decryptedBuffer.error # "none" THEN decryptedBuffer
                 ELSE Ok(TextDecoder_decode(decryptedBuffer.value))

\* decrypt(ciphertext, iv, key)
decrypt(ciphertext, iv, key) ==
    LET ciphertextArray == base64UrlToBuffer(ciphertext)
        ivArray == base64UrlToBuffer(iv)
    IN  IF ciphertextArray.error # "none" THEN Throw("InvalidBase64Error")
        ELSE IF ivArray.error # "none" THEN Throw("InvalidBase64Error")
        ELSE IF Len(ivArray.value) # IV_LENGTH THEN Throw("InvalidIVError")
        ELSE LET decryptedBuffer ==
                     subtle_decrypt(key, ivArray.value, ciphertextArray.value)
             IN  IF decryptedBuffer.error # "none" THEN Throw("DecryptionError")
                 ELSE Ok(TextDecoder_decode(decryptedBuffer.value))

\* keyToBase64(key)
keyToBase64(key) == bufferToBase64Url(key.raw)

\* mutant: the length of the decoded key is not checked
base64ToKey_AnyLength(base64) ==
    IF base64.type # "string" THEN Throw("InvalidKeyError")
    ELSE IF base64.text = <<>> THEN Throw("InvalidKeyError")
    ELSE LET keyArray == base64UrlToBuffer(base64.text)
         IN  IF keyArray.error # "none" THEN Throw("InvalidBase64Error")
             ELSE Ok(CryptoKey(keyArray.value))

\* base64ToKey(base64)
base64ToKey(base64) ==
    IF base64.type # "string" THEN Throw("InvalidKeyError")
    ELSE IF base64.text = <<>> THEN Throw("InvalidKeyError")
    ELSE LET keyArray == base64UrlToBuffer(base64.text)
         IN  IF keyArray.error # "none" THEN Throw("InvalidBase64Error")
             ELSE IF Len(keyArray.value) # KEY_BYTES THEN Throw("InvalidKeyError")
             ELSE Ok(CryptoKey(keyArray.value))

(***************************************************************************)
(* The result parsers. A text is a sequence of characters; JSON.parse and  *)
(* parseInt read it character by character.                                *)
(***************************************************************************)
JsBoolean(b) == [type |-> "boolean", bool |-> b]

\* an object: its properties in the order they were set
JsObject(fields) == [type |-> "object", fields |-> fields]

JsArray(items) == [type |-> "array", items |-> items]

Property(key, value) == [key |-> key, value |-> value]

\* typeof value
typeof(v) == IF v.type \in {"null", "array"} THEN "object" ELSE v.type

\* key in value, for an object or an array
HasProperty(v, key) ==
    v.type = "object" /\ \E i \in 1..Len(v.fields) : v.fields[i].key = key

\* value[key], for an object that has the property
GetProperty(v, key) ==
    LET last_ == CHOOSE i \in 1..Len(v.fields) :
                    /\ v.fields[i].key = key
                    /\ \A j \in (i + 1)..Len(v.fields) : v.fields[j].key # key
    IN  v.fields[last_].value

Digits == <<"0", "1", "2", "3", "4", "5", "6", "7", "8", "9">>

IsDigit(c) == \E d \in 1..Len(Digits) : Digits[d] = c

DigitValue(c) == (CHOOSE d \in 1..Len(Digits) : Digits[d] = c) - 1

\* the white space JSON allows between tokens
JsonWhitespace == {" ", "\t", "\n", "\r"}

RECURSIVE SkipWhitespace(_, _)
SkipWhitespace(t, i) ==
    IF i <= Len(t) /\ t[i] \in JsonWhitespace THEN SkipWhitespace(t, i + 1) ELSE i

\* the place after the digits that start at i
RECURSIVE DigitsEnd(_, _)
DigitsEnd(t, i) == IF i <= Len(t) /\ IsDigit(t[i]) THEN DigitsEnd(t, i + 1) ELSE i

\* the number the digits of t from i up to j - 1 write
RECURSIVE DigitsValue(_, _, _)
DigitsValue(t, i, j) ==
    IF j <= i THEN 0 ELSE DigitsValue(t, i, j - 1) * 10 + DigitValue(t[j - 1])

StartsWith(t, i, word) ==
    i + Len(word) - 1 <= Len(t) /\ SubSeq(t, i, i + Len(word) - 1) = word

\* what reading a JSON value at a place gives: nothing, or the value and the
\* place after it
Failed == [ok |-> FALSE]

Parsed(v, next) == [ok |-> TRUE, value |-> v, next |-> next]

\* a JSON number at i: -? (0 | [1-9][0-9]*), read without fraction or exponent
JsonNumber(t, i) ==
    LET s == IF i <= Len(t) /\ t[i] = "-" THEN i + 1 ELSE i
        e == IF s <= Len(t) /\ t[s] = "0" THEN s + 1 ELSE DigitsEnd(t, s)
    IN  IF e = s THEN Failed
        ELSE Parsed(JsNumber(IF s > i THEN 0 - DigitsValue(t, s, e)
                             ELSE DigitsValue(t, s, e)), e)

\* the place of the quote that closes the string opened before i; 0 when
\* there is none (escapes are not read)
RECURSIVE StringEnd(_, _)
StringEnd(t, i) ==
    IF i > Len(t) THEN 0
    ELSE IF t[i] = "\"" THEN i
    ELSE IF t[i] \in {"\\", "\t", "\n", "\r"} THEN 0
    ELSE StringEnd(t, i + 1)

\* a JSON string at i
JsonString(t, i) ==
    IF i > Len(t) THEN Failed
    ELSE IF t[i] # "\"" THEN Failed
    ELSE IF StringEnd(t, i + 1) = 0 THEN Failed
    ELSE Parsed(JsString(SubSeq(t, i + 1, StringEnd(t, i + 1) - 1)),
                StringEnd(t, i + 1) + 1)

RECURSIVE JsonValue(_, _)
RECURSIVE JsonMembers(_, _, _)
RECURSIVE JsonElements(_, _, _)
\* a JSON value at or after i
JsonValue(t, i0) ==
    LET i == SkipWhitespace(t, i0)
        j == SkipWhitespace(t, i + 1)
    IN  IF i > Len(t) THEN Failed
        ELSE IF t[i] = "{"
             THEN IF j <= Len(t) /\ t[j] = "}" THEN Parsed(JsObject(<<>>), j + 1)
                  ELSE JsonMembers(t, j, <<>>)
        ELSE IF t[i] = "["
             THEN IF j <= Len(t) /\ t[j] = "]" THEN Parsed(JsArray(<<>>), j + 1)
                  ELSE JsonElements(t, j, <<>>)
        ELSE IF t[i] = "\"" THEN JsonString(t, i)
        ELSE IF StartsWith(t, i, <<"t", "r", "u", "e">>)
             THEN Parsed(JsBoolean(TRUE), i + 4)
        ELSE IF StartsWith(t, i, <<"f", "a", "l", "s", "e">>)
             THEN Parsed(JsBoolean(FALSE), i + 5)
        ELSE IF StartsWith(t, i, <<"n", "u", "l", "l">>) THEN Parsed(JsNull, i + 4)
        ELSE JsonNumber(t, i)

\* the members of an object from i on, after those in fields
JsonMembers(t, i, fields) ==
    LET key == JsonString(t, i)
        colon == SkipWhitespace(t, key.next)
        value == JsonValue(t, colon + 1)
        after == SkipWhitespace(t, value.next)
        more == Append(fields, Property(key.value.text, value.value))
    IN  IF ~key.ok THEN Failed
        ELSE IF colon > Len(t) THEN Failed
        ELSE IF t[colon] # ":" THEN Failed
        ELSE IF ~value.ok THEN Failed
        ELSE IF after > Len(t) THEN Failed
        ELSE IF t[after] = "," THEN JsonMembers(t, SkipWhitespace(t, after + 1), more)
        ELSE IF t[after] = "}" THEN Parsed(JsObject(more), after + 1)
        ELSE Failed

\* the elements of an array from i on, after those in items
JsonElements(t, i, items) ==
    LET value == JsonValue(t, i)
        after == SkipWhitespace(t, value.next)
        more == Append(items, value.value)
    IN  IF ~value.ok THEN Failed
        ELSE IF after > Len(t) THEN Failed
        ELSE IF t[after] = "," THEN JsonElements(t, after + 1, more)
        ELSE IF t[after] = "]" THEN Parsed(JsArray(more), after + 1)
        ELSE Failed

\* JSON.parse(text): the value, or a SyntaxError when the text is no JSON
JSON_parse(text) ==
    LET read == JsonValue(text, 1)
    IN  IF ~read.ok THEN Throw("SyntaxError")
        ELSE IF SkipWhitespace(text, read.next) <= Len(text) THEN Throw("SyntaxError")
        ELSE Ok(read.value)

\* the decimal text of a natural number
RECURSIVE NaturalText(_)
NaturalText(n) ==
    IF n < 10 THEN <<Digits[n + 1]>>
    ELSE NaturalText(n \div 10) \o <<Digits[(n % 10) + 1]>>

\* JSON.stringify(value)
RECURSIVE JSON_stringify(_)
RECURSIVE StringifyFields(_)
RECURSIVE StringifyItems(_)
JSON_stringify(v) ==
    IF v.type = "null" THEN <<"n", "u", "l", "l">>
    ELSE IF v.type = "boolean"
         THEN (IF v.bool THEN <<"t", "r", "u", "e">> ELSE <<"f", "a", "l", "s", "e">>)
    ELSE IF v.type = "number"
         THEN (IF v.num < 0 THEN <<"-">> \o NaturalText(0 - v.num) ELSE NaturalText(v.num))
    ELSE IF v.type = "string" THEN <<"\"">> \o v.text \o <<"\"">>
    ELSE IF v.type = "array" THEN <<"[">> \o StringifyItems(v.items) \o <<"]">>
    ELSE <<"{">> \o StringifyFields(v.fields) \o <<"}">>

StringifyFields(fields) ==
    IF fields = <<>> THEN <<>>
    ELSE <<"\"">> \o fields[1].key \o <<"\"", ":">> \o JSON_stringify(fields[1].value)
         \o (IF Len(fields) = 1 THEN <<>> ELSE <<",">> \o StringifyFields(Tail(fields)))

StringifyItems(items) ==
    IF items = <<>> THEN <<>>
    ELSE JSON_stringify(items[1])
         \o (IF Len(items) = 1 THEN <<>> ELSE <<",">> \o StringifyItems(Tail(items)))

\* not a number
JsNaN == [type |-> "number", nan |-> TRUE]

\* parseInt(text, 10): white space, a sign, then digits as far as they go
parseInt(text) ==
    LET s == SkipWhitespace(text, 1)
        d == IF s <= Len(text) /\ text[s] \in {"-", "+"} THEN s + 1 ELSE s
        e == DigitsEnd(text, d)
    IN  IF e = d THEN JsNaN
        ELSE IF d > s /\ text[s] = "-" THEN JsNumber(0 - DigitsValue(text, d, e))
        ELSE JsNumber(DigitsValue(text, d, e))

KEY_error ==
    <<"e", "r", "r", "o", "r">>

KEY_secret ==
    <<"s", "e", "c", "r", "e", "t">>

KEY_burned ==
    <<"b", "u", "r", "n", "e", "d">>

KEY_viewsRemaining ==
    <<"v", "i", "e", "w", "s", "R", "e", "m", "a", "i", "n", "i", "n", "g">>

KEY_id ==
    <<"i", "d">>

LuaScriptErrorPrefix ==
    <<"L", "u", "a", " ", "s", "c", "r", "i", "p", "t", " ", "e", "r", "r",
      "o", "r", ":", " ">>

DecrementNotJson ==
    <<"I", "n", "v", "a", "l", "i", "d", " ", "d", "e", "c", "r", "e", "m",
      "e", "n", "t", " ", "r", "e", "s", "u", "l", "t", ":", " ", "f", "a",
      "i", "l", "e", "d", " ", "t", "o", " ", "p", "a", "r", "s", "e", " ",
      "J", "S", "O", "N", " ", "s", "t", "r", "i", "n", "g">>

DecrementMissing ==
    <<"I", "n", "v", "a", "l", "i", "d", " ", "d", "e", "c", "r", "e", "m",
      "e", "n", "t", " ", "r", "e", "s", "u", "l", "t", ":", " ", "m", "i",
      "s", "s", "i", "n", "g", " ", "r", "e", "q", "u", "i", "r", "e", "d",
      " ", "'", "s", "e", "c", "r", "e", "t", "'", " ", "o", "r", " ", "'",
      "b", "u", "r", "n", "e", "d", "'", " ", "p", "r", "o", "p", "e", "r",
      "t", "i", "e", "s">>

IncrementNotNumber ==
    <<"I", "n", "v", "a", "l", "i", "d", " ", "i", "n", "c", "r", "e", "m",
      "e", "n", "t", " ", "r", "e", "s", "u", "l", "t", ":", " ", "e", "x",
      "p", "e", "c", "t", "e", "d", " ", "n", "u", "m", "b", "e", "r", " ",
      "o", "r", " ", "J", "S", "O", "N">>

IncrementNotError ==
    <<"I", "n", "v", "a", "l", "i", "d", " ", "i", "n", "c", "r", "e", "m",
      "e", "n", "t", " ", "r", "e", "s", "u", "l", "t", ":", " ", "e", "x",
      "p", "e", "c", "t", "e", "d", " ", "n", "u", "m", "b", "e", "r", " ",
      "o", "r", " ", "e", "r", "r", "o", "r", " ", "o", "b", "j", "e", "c",
      "t">>

IncrementUnexpected ==
    <<"I", "n", "v", "a", "l", "i", "d", " ", "i", "n", "c", "r", "e", "m",
      "e", "n", "t", " ", "r", "e", "s", "u", "l", "t", ":", " ", "u", "n",
      "e", "x", "p", "e", "c", "t", "e", "d", " ", "r", "e", "s", "u", "l",
      "t", " ", "t", "y", "p", "e">>

\* throw new InvalidResultError(message)
InvalidResultError(message) ==
    [error |-> "InvalidResultError", value |-> <<>>, message |-> message]

\* mutant: burned of any type is accepted
isDecrementResult_AnyBurned(value) ==
    /\ typeof(value) = "object"
    /\ value # JsNull
    /\ HasProperty(value, KEY_secret)
    /\ HasProperty(value, KEY_burned)

\* isDecrementResult(value)
isDecrementResult(value) ==
    /\ typeof(value) = "object"
    /\ value # JsNull
    /\ HasProperty(value, KEY_secret)
    /\ HasProperty(value, KEY_burned)
    /\ typeof(GetProperty(value, KEY_burned)) = "boolean"

\* mutant: the error of an error reply is looked for under "secret"
isLuaScriptError_WrongKey(value) ==
    /\ typeof(value) = "object"
    /\ value # JsNull
    /\ HasProperty(value, KEY_secret)
    /\ typeof(GetProperty(value, KEY_secret)) = "string"

\* isLuaScriptError(value)
isLuaScriptError(value) ==
    /\ typeof(value) = "object"
    /\ value # JsNull
    /\ HasProperty(value, KEY_error)
    /\ typeof(GetProperty(value, KEY_error)) = "string"

\* what parseDecrementResult does with the value that was passed or parsed
ValidateDecrement(parsed) ==
    IF isLuaScriptError(parsed)
    THEN InvalidResultError(LuaScriptErrorPrefix \o GetProperty(parsed, KEY_error).text)
    ELSE IF ~isDecrementResult(parsed) THEN InvalidResultError(DecrementMissing)
    ELSE Ok(parsed)

\* mutant: null is looked for after the text was parsed, too
parseDecrementResult_ParsedNull(result) ==
    IF result = JsNull \/ result = JsUndefined THEN Ok(JsNull)
    ELSE IF typeof(result) = "string"
         THEN IF JSON_parse(result.text).error # "none"
              THEN InvalidResultError(DecrementNotJson)
              ELSE IF JSON_parse(result.text).value = JsNull THEN Ok(JsNull)
              ELSE ValidateDecrement(JSON_parse(result.text).value)
    ELSE ValidateDecrement(result)

\* parseDecrementResult(result)
parseDecrementResult(result) ==
    IF result = JsNull \/ result = JsUndefined THEN Ok(JsNull)
    ELSE IF typeof(result) = "string"
         THEN IF JSON_parse(result.text).error # "none"
              THEN InvalidResultError(DecrementNotJson)
              ELSE ValidateDecrement(JSON_parse(result.text).value)
    ELSE ValidateDecrement(result)

\* mutant: a string is not parsed
parseIncrementResult_NoText(result) ==
    IF result = JsNull \/ result = JsUndefined THEN Ok(JsNull)
    ELSE IF typeof(result) = "number" THEN Ok(result)
    ELSE IF isLuaScriptError(result)
         THEN InvalidResultError(LuaScriptErrorPrefix \o GetProperty(result, KEY_error).text)
    ELSE InvalidResultError(IncrementUnexpected)

\* parseIncrementResult(result)
parseIncrementResult(result) ==
    IF result = JsNull \/ result = JsUndefined THEN Ok(JsNull)
    ELSE IF typeof(result) = "number" THEN Ok(result)
    ELSE IF typeof(result) = "string"
         THEN LET parsed == JSON_parse(result.text)
                  num == parseInt(result.text)
              IN  IF parsed.error # "none"
                  THEN IF num # JsNaN THEN Ok(num)
                       ELSE InvalidResultError(IncrementNotNumber)
                  ELSE IF typeof(parsed.value) = "number" THEN Ok(parsed.value)
                  ELSE IF isLuaScriptError(parsed.value)
                       THEN InvalidResultError(
                               LuaScriptErrorPrefix
                               \o GetProperty(parsed.value, KEY_error).text)
                  ELSE InvalidResultError(IncrementNotError)
    ELSE IF isLuaScriptError(result)
         THEN InvalidResultError(LuaScriptErrorPrefix \o GetProperty(result, KEY_error).text)
    ELSE InvalidResultError(IncrementUnexpected)

REASON_invalid_json ==
    <<"i", "n", "v", "a", "l", "i", "d", "_", "j", "s", "o", "n">>

REASON_invalid_viewsRemaining_type ==
    <<"i", "n", "v", "a", "l", "i", "d", "_", "v", "i", "e", "w", "s", "R",
      "e", "m", "a", "i", "n", "i", "n", "g", "_", "t", "y", "p", "e">>

REASON_missing_arguments ==
    <<"m", "i", "s", "s", "i", "n", "g", "_", "a", "r", "g", "u", "m", "e",
      "n", "t", "s">>

REASON_invalid_arguments ==
    <<"i", "n", "v", "a", "l", "i", "d", "_", "a", "r", "g", "u", "m", "e",
      "n", "t", "s">>

TEXT_abc123 ==
    <<"a", "b", "c", "1", "2", "3">>

TEXT_not_valid_json ==
    <<"n", "o", "t", " ", "v", "a", "l", "i", "d", " ", "j", "s", "o", "n">>

TEXT_invalid_object ==
    <<"{", "i", "n", "v", "a", "l", "i", "d", "}">>

TEXT_12abc ==
    <<"1", "2", "a", "b", "c">>

TEXT_undefined ==
    <<"u", "n", "d", "e", "f", "i", "n", "e", "d">>

(***************************************************************************)
(* State.                                                                  *)
(*   store     the key-value store                                         *)
(*   inflight  the EVAL requests submitted and not yet run (a bag)         *)
(*   calls     the number of requests submitted so far                     *)
(*   hist      per key, the transactions run on it since it last expired,  *)
(*             in serialisation order: what each read and replied, the     *)
(*             max_count they passed, whether any two were in flight       *)
(*             together                                                    *)
(*   last      the transaction run last: its arguments, the key's entry    *)
(*             before and after it, and its reply                          *)
(*   encrypted the encrypt calls made last (the latest two): arguments,    *)
(*             the random bytes drawn, the result                          *)
(*   outcome   the library call made last: its arguments and what it       *)
(*             returned or threw                                           *)
(***************************************************************************)
VARIABLES store, inflight, calls, hist, last, encrypted, outcome

vars == <<store, inflight, calls, hist, last, encrypted, outcome>>

\* the variables of the store and its clients
storevars == <<store, inflight, calls, hist, last>>

\* the variables of the library's caller
libvars == <<encrypted, outcome>>

NoCall == [op |-> "none"]

Request(op, key) == [op |-> op, key |-> key]

\* the texts a caller can pass as ARGV[1] / ARGV[2]: nothing, a text that is
\* not a number, or the text of an integer
ArgTexts(hi) == {LuaNil, JunkString} \cup {LuaString(LuaNumber(n)) : n \in 0..hi}

\* the texts a caller can pass as ARGV[2]: those, and "1.5"
ExpireTexts == ArgTexts(MaxExpire) \cup {LuaString(Fractional(1))}

\* the records an application can have stored under a secret's key before
\* the first transaction: a well-formed record, a record whose viewsRemaining
\* is missing or is a string, text that is not JSON, and JSON that is no object
StoredValues ==
    {LuaString(SecretTable(LuaNumber(n), p)) : n \in -1..MaxCount, p \in Payloads}
    \cup {LuaString(SecretTable(LuaNil, "ciphertext")),
          LuaString(SecretTable(JunkString, "ciphertext")),
          JunkString,
          LuaString(LuaNumber(MaxCount)),
          LuaString(LuaTrue),
          LuaString(LuaNull),
          LuaString(JunkString)}

StoredEntries ==
    {Absent} \cup {Entry(v, pttl) : v \in StoredValues, pttl \in {-1, MaxExpire * 1000}}

\* what hist keeps of a key while nothing has run on it
NoHistory == [log |-> <<>>, max |-> 0, overlap |-> FALSE]

NoTransaction ==
    [op |-> "none", key |-> "", argv1 |-> LuaNil, argv2 |-> LuaNil,
     pre |-> Absent, post |-> Absent, reply |-> LuaNil]

\* a store in which the secret's key holds what the application stored and
\* no rate-limit counter exists yet
Init ==
    /\ store \in {st \in [Keys -> StoredEntries] : \A k \in CounterKeys : st[k] = Absent}
    /\ inflight = EmptyBag
    /\ calls = 0
    /\ hist = [k \in Keys |-> NoHistory]
    /\ last = NoTransaction
    /\ encrypted = <<>>
    /\ outcome = NoCall

\* a store with no key at all
InitEmpty ==
    /\ store = [k \in Keys |-> Absent]
    /\ inflight = EmptyBag
    /\ calls = 0
    /\ hist = [k \in Keys |-> NoHistory]
    /\ last = NoTransaction
    /\ encrypted = <<>>
    /\ outcome = NoCall

\* redis.eval(script, [key], argv) is sent
Submit(op, key) ==
    /\ calls < MaxCalls
    /\ BagCardinality(inflight) < MaxInflight
    /\ inflight' = inflight (+) SetToBag({Request(op, key)})
    /\ calls' = calls + 1
    /\ UNCHANGED <<store, hist, last>>
    /\ UNCHANGED libvars

\* another request on the same key is in flight while req runs
Overlaps(req) ==
    \E r \in BagToSet(inflight (-) SetToBag({req})) : r.key = req.key

\* a reply that is no outcome of the protocol: {error = ...} or a script failure
IsError(reply) ==
    \/ reply = ScriptError
    \/ type(reply) = "string" /\ type(reply.json) = "table" /\ "error" \in DOMAIN reply.json

\* the max_count of all transactions logged for a key: 0 when none passed a
\* max_count yet, -1 when they passed different ones
SameMax(seen, max_count) ==
    IF max_count = LuaNil THEN seen
    ELSE IF seen = 0 \/ seen = max_count.num THEN max_count.num
    ELSE -1

\* the transaction is added to its key's history, unless its reply is an error
Logged(h, req, argv1, reply) ==
    IF IsError(reply) THEN h
    ELSE [log |-> Append(h.log, [op |-> req.op, read |-> GET(store, req.key),
                                 reply |-> reply]),
          max |-> SameMax(h.max, tonumber(argv1)),
          overlap |-> h.overlap \/ Overlaps(req)]

\* the store runs one request's script to completion
Run(req, argv1, argv2, out) ==
    /\ store' = out.store
    /\ inflight' = inflight (-) SetToBag({req})
    /\ hist' = [hist EXCEPT ![req.key] = Logged(@, req, argv1, out.reply)]
    /\ last' = [op |-> req.op, key |-> req.key, argv1 |-> argv1, argv2 |-> argv2,
                pre |-> store[req.key], post |-> out.store[req.key],
                reply |-> out.reply]
    /\ UNCHANGED calls
    /\ UNCHANGED libvars

ExecuteDecrement(req) ==
    /\ req \in BagToSet(inflight)
    /\ req.op = "decrement"
    /\ Run(req, LuaNil, LuaNil, ATOMIC_DECREMENT_SCRIPT(store, req.key))

ExecuteIncrement(req, argv1, argv2) ==
    /\ req \in BagToSet(inflight)
    /\ req.op = "increment"
    /\ Run(req, argv1, argv2,
           ATOMIC_INCREMENT_WITH_LIMIT_SCRIPT(store, req.key, argv1, argv2))

\* the store's clock advances; a key whose life has run out is removed
Expire(e) ==
    IF e.pttl <= 0 THEN e
    ELSE IF e.pttl - TickMs <= 0 THEN Absent
    ELSE [e EXCEPT !.pttl = @ - TickMs]

Tick ==
    /\ \E k \in Keys : store[k].pttl > 0
    /\ store' = [k \in Keys |-> Expire(store[k])]
    /\ hist' = [k \in Keys |->
                  IF Present(store[k]) /\ ~Present(Expire(store[k])) THEN NoHistory
                  ELSE hist[k]]
    /\ UNCHANGED <<inflight, calls, last>>
    /\ UNCHANGED libvars

Requests == {Request(op, key) : op \in {"decrement", "increment"}, key \in Keys}

\* decrement transactions only, on stored records
NextDecrement ==
    \/ \E key \in Keys : Submit("decrement", key)
    \/ \E req \in Requests : ExecuteDecrement(req)
    \/ Tick

SpecDecrement == Init /\ [][NextDecrement]_vars

\* increment transactions only, on the rate-limit counter, from an empty store
NextIncrement ==
    \/ \E key \in CounterKeys : Submit("increment", key)
    \/ \E req \in Requests, argv1 \in ArgTexts(MaxCount), argv2 \in ArgTexts(MaxExpire) :
          ExecuteIncrement(req, argv1, argv2)
    \/ Tick

SpecIncrement == InitEmpty /\ [][NextIncrement]_vars

\* increment transactions with max_count = MaxCount and any ARGV[2]
NextWindow ==
    \/ \E key \in CounterKeys : Submit("increment", key)
    \/ \E req \in Requests, argv2 \in ExpireTexts :
          ExecuteIncrement(req, LuaString(LuaNumber(MaxCount)), argv2)
    \/ Tick

SpecWindow == InitEmpty /\ [][NextWindow]_vars

\* a caller that awaits each reply: redis.eval of the increment script with
\* max_count = MaxCount is sent and run, nothing else in flight
Eval(key, argv2) ==
    LET argv1 == LuaString(LuaNumber(MaxCount))
        out == ATOMIC_INCREMENT_WITH_LIMIT_SCRIPT(store, key, argv1, argv2)
    IN  /\ inflight = EmptyBag
        /\ store' = out.store
        /\ last' = [op |-> "increment", key |-> key, argv1 |-> argv1, argv2 |-> argv2,
                    pre |-> store[key], post |-> out.store[key], reply |-> out.reply]
        /\ UNCHANGED <<inflight, calls, hist>>
        /\ UNCHANGED libvars

\* the texts of the integers a caller passes as a window
WindowTexts == {LuaString(LuaNumber(n)) : n \in 1..MaxExpire}

\* the caller calls with a window of whole seconds
Call == \E key \in CounterKeys, argv2 \in WindowTexts : Eval(key, argv2)

\* the caller calls again and again, with good and bad ARGV[2], while the
\* clock runs
NextRetry ==
    \/ Call
    \/ \E key \in CounterKeys, argv2 \in ArgTexts(MaxExpire) \ WindowTexts : Eval(key, argv2)
    \/ Tick

\* the clock does not stop, and the caller keeps calling
SpecRetry == InitEmpty /\ [][NextRetry]_vars /\ WF_vars(Tick) /\ WF_vars(Call)

\* both scripts, on either key, one transaction after the other, from a
\* store that holds a record
NextFrame ==
    \/ /\ inflight = EmptyBag
       /\ \E op \in {"decrement", "increment"}, key \in Keys : Submit(op, key)
    \/ \E req \in Requests : ExecuteDecrement(req)
    \/ \E req \in Requests, argv2 \in WindowTexts \cup {LuaNil} :
          ExecuteIncrement(req, LuaString(LuaNumber(MaxCount)), argv2)

SpecFrame == Init /\ [][NextFrame]_vars

Next ==
    \/ \E op \in {"decrement", "increment"}, key \in Keys : Submit(op, key)
    \/ \E req \in Requests : ExecuteDecrement(req)
    \/ \E req \in Requests, argv1 \in ArgTexts(MaxCount), argv2 \in ArgTexts(MaxExpire) :
          ExecuteIncrement(req, argv1, argv2)
    \/ Tick

Spec == Init /\ [][Next]_vars

(***************************************************************************)
(* The caller of crypto.ts.                                                *)
(***************************************************************************)
MaxPlainLen == 1

MaxBytes == 3

\* the texts of at most n code units out of units
Texts(units, n) == UNION {[1..k -> units] : k \in 0..n}

\* "A", a high and a low surrogate (together U+1F510), and U+FEFF
PlainUnits == {65, 55357, 56592, 65279}

Plaintexts == Texts(PlainUnits, MaxPlainLen)

\* two of the keys crypto.subtle.generateKey can give
generateKey == {CryptoKey([i \in 1..KEY_BYTES |-> (s + 7 * i) % 256]) : s \in {3, 250}}

\* two of the values crypto.getRandomValues(new Uint8Array(IV_LENGTH)) can give
getRandomValues == {[i \in 1..IV_LENGTH |-> (s * i) % 256] : s \in {5, 251}}

\* options: none, or {maxBytes: n}
EncryptOptions == {JsUndefined} \cup {[maxBytes |-> n] : n \in 0..MaxBytes}

\* the character of a 6-bit value in the url-safe alphabet, and back
UrlChar(v) == IF v = 62 THEN MINUS ELSE IF v = 63 THEN UNDERSCORE ELSE B64Char(v)

UrlValue(c) == IF c = MINUS THEN 62 ELSE IF c = UNDERSCORE THEN 63 ELSE B64Value(c)

\* characters put in place of the character c of an encoded text: the
\* characters whose value differs from c's in the lowest or the highest bit,
\* "A", c's counterpart in the standard alphabet, and "!", " " and "="
Replacements(c) ==
    LET v == UrlValue(c)
    IN  ({UrlChar(IF v % 2 = 0 THEN v + 1 ELSE v - 1), UrlChar((v + 32) % 64),
          65, 33, 32, PAD}
         \cup (IF c = MINUS THEN {PLUS} ELSE IF c = UNDERSCORE THEN {SLASH} ELSE {}))
        \ {c}

\* text with one character replaced by a different one
Tampered(text) ==
    UNION {{[text EXCEPT ![i] = c] : c \in Replacements(text[i])} : i \in 1..Len(text)}

\* text cut short
Truncated(text) == {SubSeq(text, 1, n) : n \in 0..(Len(text) - 1)}

\* what can come back in place of the EncryptedData d: d itself, d with its
\* ciphertext tampered or cut short, with another iv, with another version
Received(d) ==
    {d}
    \cup {[d EXCEPT !.ciphertext = t] : t \in Tampered(d.ciphertext) \cup Truncated(d.ciphertext)}
    \cup {[d EXCEPT !.iv = bufferToBase64Url(r)] : r \in getRandomValues}
    \cup {[d EXCEPT !.iv = SubSeq(d.iv, 1, 12)]}
    \cup {[d EXCEPT !.version = n] : n \in {0, 2}}

\* the texts and values handed to base64ToKey
KeyTexts ==
    LET exported == {keyToBase64(k) : k \in generateKey}
        filled == {bufferToBase64Url([i \in 1..n |-> f]) :
                      n \in {1, 16, 31, 32, 33, 64}, f \in {0, 251, 255}}
    IN  exported \cup filled
        \cup {Replace(Replace(t, MINUS, PLUS), UNDERSCORE, SLASH) : t \in exported \cup filled}
        \cup {t \o <<PAD>> : t \in exported}
        \cup UNION {Truncated(t) : t \in exported}
        \cup {[t EXCEPT ![i] = 33] : t \in exported, i \in 1..43}

KeyInputs ==
    {JsUndefined, JsNull, JsNumber(0), JsNumber(42)} \cup {JsString(t) : t \in KeyTexts}

\* await encrypt(plaintext, key, options)
Encrypt(plaintext, key, options, random) ==
    LET result == encrypt(plaintext, key, options, random)
        made == [plaintext |-> plaintext, key |-> key, random |-> random,
                 data |-> result.value]
    IN  /\ outcome' = [op |-> "encrypt", plaintext |-> plaintext, key |-> key,
                       options |-> options, random |-> random, result |-> result]
        /\ encrypted' = IF result.error # "none" THEN encrypted
                        ELSE IF Len(encrypted) < 2 THEN Append(encrypted, made)
                        ELSE <<encrypted[2], made>>
        /\ UNCHANGED storevars

\* the EncryptedData made last
Sealed == encrypted[Len(encrypted)]

\* await decrypt(received.ciphertext, received.iv, key), on what came back
\* in place of the EncryptedData just made
Decrypt(received, key) ==
    /\ outcome' = [op |-> "decrypt", received |-> received, key |-> key,
                   result |-> decrypt(received.ciphertext, received.iv, key)]
    /\ UNCHANGED encrypted
    /\ UNCHANGED storevars

\* await base64ToKey(base64)
Base64ToKey(base64) ==
    /\ outcome' = [op |-> "base64ToKey", base64 |-> base64,
                   result |-> base64ToKey(base64)]
    /\ UNCHANGED encrypted
    /\ UNCHANGED storevars

\* await keyToBase64(key)
KeyToBase64(key) ==
    /\ outcome' = [op |-> "keyToBase64", key |-> key, result |-> Ok(keyToBase64(key))]
    /\ UNCHANGED encrypted
    /\ UNCHANGED storevars

\* one secret is encrypted, what comes back is decrypted
NextCipher ==
    \/ /\ outcome = NoCall
       /\ \E plaintext \in Plaintexts, key \in generateKey, options \in EncryptOptions,
             random \in getRandomValues :
             Encrypt(plaintext, key, options, random)
    \/ /\ outcome.op = "encrypt"
       /\ outcome.result.error = "none"
       /\ \E key \in generateKey, received \in Received(Sealed.data) :
             Decrypt(received, key)

SpecCipher == InitEmpty /\ [][NextCipher]_vars

\* the texts encrypted again and again: "", "A" and U+FEFF
RepeatedTexts == Texts({65, 65279}, 1)

\* encrypt is called again and again
NextEncrypt ==
    \E plaintext \in RepeatedTexts, key \in generateKey, random \in getRandomValues :
        Encrypt(plaintext, key, JsUndefined, random)

SpecEncrypt == InitEmpty /\ [][NextEncrypt]_vars

\* keys are exported and imported
NextKey ==
    \/ \E base64 \in KeyInputs : Base64ToKey(base64)
    \/ \E key \in generateKey : KeyToBase64(key)

SpecKey == InitEmpty /\ [][NextKey]_vars

(***************************************************************************)
(* The codec on its own: a buffer is encoded, the text is decoded.         *)
(***************************************************************************)
MaxBufferLen == 3

\* bytes whose 6-bit groups give "A", letters, digits, "-" and "_"
BufferBytes == {0, 104, 251, 255}

Buffers == UNION {[1..n -> BufferBytes] : n \in 0..MaxBufferLen}

\* text written in the standard alphabet
Standard(text) == Replace(Replace(text, MINUS, PLUS), UNDERSCORE, SLASH)

\* bufferToBase64Url(bytes)
BufferToBase64Url(bytes) ==
    /\ outcome = NoCall
    /\ outcome' = [op |-> "bufferToBase64Url", bytes |-> bytes,
                   result |-> Ok(bufferToBase64Url(bytes))]
    /\ UNCHANGED encrypted
    /\ UNCHANGED storevars

\* base64UrlToBuffer(text), text what the encoder returned or that text in
\* the standard alphabet
Base64UrlToBuffer(text) ==
    /\ outcome.op = "bufferToBase64Url"
    /\ text \in {outcome.result.value, Standard(outcome.result.value)}
    /\ outcome' = [op |-> "base64UrlToBuffer", bytes |-> outcome.bytes,
                   encoded |-> outcome.result.value, text |-> text,
                   result |-> base64UrlToBuffer(text)]
    /\ UNCHANGED encrypted
    /\ UNCHANGED storevars

NextCodec ==
    \/ \E bytes \in Buffers : BufferToBase64Url(bytes)
    \/ \E bytes \in Buffers :
          \E text \in {bufferToBase64Url(bytes), Standard(bufferToBase64Url(bytes))} :
              Base64UrlToBuffer(text)

SpecCodec == InitEmpty /\ [][NextCodec]_vars

KEY_content ==
    <<"c", "o", "n", "t", "e", "n", "t">>

TEXT_encrypted_data ==
    <<"e", "n", "c", "r", "y", "p", "t", "e", "d", "-", "d", "a", "t", "a">>

(***************************************************************************)
(* From the store to the parsers: what a client hands over for a reply.    *)
(***************************************************************************)
\* the text of an error reason
ReasonText(reason) ==
    IF reason = "invalid_json" THEN REASON_invalid_json
    ELSE IF reason = "invalid_viewsRemaining_type" THEN REASON_invalid_viewsRemaining_type
    ELSE IF reason = "missing_arguments" THEN REASON_missing_arguments
    ELSE REASON_invalid_arguments

\* the JavaScript value of another field of the record
PayloadValue(p) ==
    IF p = "[]" THEN JsArray(<<>>)
    ELSE IF p = "{}" THEN JsObject(<<>>)
    ELSE JsString(TEXT_encrypted_data)

\* the JavaScript value of the record a reply carries
SecretValue(secret) ==
    JsObject(<<Property(KEY_content, PayloadValue(secret.payload)),
               Property(KEY_viewsRemaining, JsNumber(secret.viewsRemaining.num))>>)

\* the JavaScript value of what a script encoded with cjson.encode
TableValue(t) ==
    IF "error" \in DOMAIN t THEN JsObject(<<Property(KEY_error, JsString(ReasonText(t.error)))>>)
    ELSE JsObject(<<Property(KEY_secret, SecretValue(t.secret)),
                    Property(KEY_burned, JsBoolean(t.burned))>>)

\* the reply as the client decoded it: nil is null, an integer a number, the
\* JSON text the value it encodes
DecodedReply(reply) ==
    IF reply = LuaNil THEN JsNull
    ELSE IF type(reply) = "number" THEN JsNumber(reply.num)
    ELSE TableValue(reply.json)

\* the reply as raw text
RawReply(reply) ==
    IF reply = LuaNil THEN JsNull
    ELSE JsString(JSON_stringify(DecodedReply(reply)))

\* the two ways a client hands a reply over
Forms == {"decoded", "raw"}

HandedOver(reply, form) == IF form = "raw" THEN RawReply(reply) ELSE DecodedReply(reply)

\* the reply of the transaction run last goes through its parser; redis.eval
\* rejects when the script raised, and nothing is parsed then
Parse(form) ==
    /\ last.op # "none"
    /\ last.reply # ScriptError
    /\ inflight = EmptyBag
    /\ outcome' = [op |-> IF last.op = "decrement" THEN "parseDecrementResult"
                          ELSE "parseIncrementResult",
                   raw |-> HandedOver(last.reply, form),
                   result |-> IF last.op = "decrement"
                              THEN parseDecrementResult(HandedOver(last.reply, form))
                              ELSE parseIncrementResult(HandedOver(last.reply, form)),
                   reply |-> last.reply,
                   form |-> form]
    /\ UNCHANGED encrypted
    /\ UNCHANGED storevars

\* no secret is stored and none was asked for
NoSecrets == \A k \in SecretKeys : ~Present(store[k]) /\ hist[k] = NoHistory

\* one client: it sends a transaction, awaits the reply and parses it; it
\* reads secrets, or limits a rate on a store that holds no secret
NextClient ==
    \/ /\ inflight = EmptyBag
       /\ last.op # "none" => outcome # NoCall /\ outcome.reply = last.reply
       /\ \/ \E key \in SecretKeys : Submit("decrement", key)
          \/ \E key \in CounterKeys : NoSecrets /\ Submit("increment", key)
    \/ \E req \in Requests : ExecuteDecrement(req)
    \/ \E req \in Requests, argv1 \in ArgTexts(MaxCount), argv2 \in ArgTexts(MaxExpire) :
          ExecuteIncrement(req, argv1, argv2)
    \/ \E form \in Forms : Parse(form)

SpecClient == Init /\ [][NextClient]_vars

(***************************************************************************)
(* The caller of the result parsers.                                       *)
(***************************************************************************)
\* the reasons a script gives in {error = reason}, and no reason at all
Reasons ==
    {REASON_invalid_json, REASON_invalid_viewsRemaining_type,
     REASON_missing_arguments, REASON_invalid_arguments, <<>>}

SecretObject(n) ==
    JsObject(<<Property(KEY_id, JsString(TEXT_abc123)),
               Property(KEY_viewsRemaining, JsNumber(n))>>)

\* {secret, burned} as the decrement script returns it
DecrementObjects ==
    {JsObject(<<Property(KEY_secret, SecretObject(n)), Property(KEY_burned, JsBoolean(b))>>) :
        n \in 0..MaxCount, b \in BOOLEAN}

\* {error: reason}
ErrorObject(reason) == JsObject(<<Property(KEY_error, JsString(reason))>>)

ErrorObjects == {ErrorObject(reason) : reason \in Reasons}

\* objects and arrays that are neither
OddObjects ==
    {JsObject(<<>>),
     JsObject(<<Property(KEY_secret, SecretObject(1))>>),
     JsObject(<<Property(KEY_burned, JsBoolean(TRUE))>>),
     JsObject(<<Property(KEY_secret, SecretObject(1)),
                Property(KEY_burned, JsString(KEY_burned))>>),
     JsObject(<<Property(KEY_secret, SecretObject(1)), Property(KEY_burned, JsNumber(1))>>),
     JsObject(<<Property(KEY_secret, JsNull), Property(KEY_burned, JsBoolean(FALSE))>>),
     JsObject(<<Property(KEY_error, JsNumber(42))>>),
     JsObject(<<Property(KEY_error, JsNull)>>),
     JsObject(<<Property(KEY_error, JsString(REASON_invalid_json)),
                Property(KEY_secret, SecretObject(1)),
                Property(KEY_burned, JsBoolean(FALSE))>>),
     JsArray(<<>>),
     JsArray(<<JsNumber(1), JsNumber(2), JsNumber(3)>>)}

Scalars ==
    {JsUndefined, JsNull, JsBoolean(TRUE), JsBoolean(FALSE), JsString(TEXT_abc123)}
    \cup {JsNumber(n) : n \in -1..MaxCount}

\* the values a store client hands over as they are
Structured == DecrementObjects \cup ErrorObjects \cup OddObjects \cup Scalars

\* the texts a store client hands over: the JSON of those values, bare or
\* with white space around it, and texts that are no JSON
ResultTexts ==
    {JSON_stringify(v) : v \in Structured \ {JsUndefined}}
    \cup {<<" ">> \o JSON_stringify(v) \o <<"\n">> : v \in Structured \ {JsUndefined}}
    \cup {<<>>, TEXT_not_valid_json, TEXT_invalid_object, TEXT_12abc, TEXT_undefined}

RawResults == Structured \cup {JsString(t) : t \in ResultTexts}

\* parseDecrementResult(raw)
ParseDecrement(raw) ==
    /\ outcome = NoCall
    /\ outcome' = [op |-> "parseDecrementResult", raw |-> raw,
                   result |-> parseDecrementResult(raw)]
    /\ UNCHANGED encrypted
    /\ UNCHANGED storevars

\* parseIncrementResult(raw)
ParseIncrement(raw) ==
    /\ outcome = NoCall
    /\ outcome' = [op |-> "parseIncrementResult", raw |-> raw,
                   result |-> parseIncrementResult(raw)]
    /\ UNCHANGED encrypted
    /\ UNCHANGED storevars

\* a raw result is parsed
NextParser ==
    \/ \E raw \in RawResults : ParseDecrement(raw)
    \/ \E raw \in RawResults : ParseIncrement(raw)

SpecParser == InitEmpty /\ [][NextParser]_vars

(***************************************************************************)
(* Vocabulary of the properties.                                           *)
(***************************************************************************)
Log(k) == hist[k].log

\* the reply is the JSON text of {secret, burned}
IsResult(reply) ==
    type(reply) = "string" /\ type(reply.json) = "table" /\ "burned" \in DOMAIN reply.json

Burned(reply) == IsResult(reply) /\ reply.json.burned

NotFound(reply) == reply = LuaNil

\* viewsRemaining of the secret a result carries
Returned(reply) == reply.json.secret.viewsRemaining.num

\* the stored text is a record whose viewsRemaining is a number
WellFormed(val) ==
    /\ type(val) = "string"
    /\ type(val.json) = "table"
    /\ "viewsRemaining" \in DOMAIN val.json
    /\ type(val.json.viewsRemaining) = "number"

Views(val) == val.json.viewsRemaining.num

\* the first transaction logged for k read a record with viewsRemaining = n
StoredWith(k, n) ==
    /\ Len(Log(k)) > 0
    /\ Log(k)[1].op = "decrement"
    /\ WellFormed(Log(k)[1].read)
    /\ Views(Log(k)[1].read) = n

ErrorReply(reason) == cjson_encode(ErrorTable(reason))

\* the count a counter entry holds
Count(e) == tonumber(e.val).num

(***************************************************************************)
(* C1  View limit under concurrency: of the decrement transactions run, in *)
(* any order, on a record stored with viewsRemaining = n >= 1, at most n   *)
(* return {secret, burned}; every transaction after the n-th returns "not  *)
(* found".                                                                 *)
(***************************************************************************)
C1_ViewLimit ==
    \A k \in Keys : \A n \in 1..MaxCount :
        StoredWith(k, n) =>
            /\ Cardinality({i \in 1..Len(Log(k)) : IsResult(Log(k)[i].reply)}) <= n
            /\ \A i \in 1..Len(Log(k)) : i > n => NotFound(Log(k)[i].reply)

\* three transactions, two of them in flight together, on a record stored
\* with two views: the third finds nothing
C1_Witness ==
    \E k \in Keys :
        /\ StoredWith(k, 2)
        /\ hist[k].overlap
        /\ Len(Log(k)) >= 3
        /\ NotFound(Log(k)[3].reply)

(***************************************************************************)
(* C2  Two concurrent decrement transactions on a record with              *)
(* viewsRemaining = 1: exactly one observes burned = true, the other       *)
(* observes "not found"; never two results.                                *)
(***************************************************************************)
C2_OneBurnsOtherNotFound ==
    \A k \in Keys :
        StoredWith(k, 1) /\ Len(Log(k)) >= 2 =>
            /\ Cardinality({i \in 1..Len(Log(k)) : Burned(Log(k)[i].reply)}) = 1
            /\ \A i \in 1..Len(Log(k)) :
                  ~Burned(Log(k)[i].reply) => NotFound(Log(k)[i].reply)

\* exactly two transactions were submitted, were in flight together, and ran
C2_Witness ==
    \E k \in Keys :
        /\ StoredWith(k, 1)
        /\ calls = 2
        /\ hist[k].overlap
        /\ Len(Log(k)) = 2

(***************************************************************************)
(* C3  No two successful decrement transactions read the same              *)
(* viewsRemaining: on a record stored with n, the i-th transaction reads   *)
(* n-i+1 and returns n-i, so the results are n-1, ..., 0 in serialisation  *)
(* order, each once.                                                       *)
(***************************************************************************)
C3_EachValueOnce ==
    \A k \in Keys : \A n \in 1..MaxCount :
        StoredWith(k, n) =>
            \A i \in 1..Len(Log(k)) :
                IsResult(Log(k)[i].reply) =>
                    /\ i <= n
                    /\ Views(Log(k)[i].read) = n - i + 1
                    /\ Returned(Log(k)[i].reply) = n - i

\* a record stored with three views was read three times, down to 0
C3_Witness ==
    \E k \in Keys :
        /\ StoredWith(k, 3)
        /\ Len(Log(k)) >= 3
        /\ Burned(Log(k)[3].reply)
        /\ Returned(Log(k)[3].reply) = 0

(***************************************************************************)
(* C4  A decrement transaction returns burned = true if and only if it     *)
(* deleted the record: the key was present before it, and after it the key *)
(* is absent when burned = true and present when burned = false.           *)
(***************************************************************************)
C4_BurnedIffDeleted ==
    last.op = "decrement" /\ IsResult(last.reply) =>
        /\ Present(last.pre)
        /\ Burned(last.reply) <=> ~Present(last.post)

\* a transaction that burned, on a key an earlier one had left in place
C4_Witness ==
    /\ last.op = "decrement"
    /\ Burned(last.reply)
    /\ ~Present(last.post)
    /\ Len(Log(last.key)) >= 2
    /\ IsResult(Log(last.key)[1].reply)
    /\ ~Burned(Log(last.key)[1].reply)

(***************************************************************************)
(* C5  Burn is final: on a record with viewsRemaining = 1 the first        *)
(* decrement transaction burns it and removes the key; every later one     *)
(* replies nil, which is no error, and the key stays absent.               *)
(***************************************************************************)
C5_BurnIsFinal ==
    \A k \in Keys :
        StoredWith(k, 1) =>
            /\ Burned(Log(k)[1].reply)
            /\ ~Present(store[k])
            /\ \A i \in 2..Len(Log(k)) : NotFound(Log(k)[i].reply)
            /\ last.key = k =>
                  /\ ~IsError(last.reply)
                  /\ ~Present(last.post)
                  /\ Len(Log(k)) >= 2 => (last.pre = Absent /\ NotFound(last.reply))

\* a decrement ran on the key after the burn
C5_Witness ==
    \E k \in Keys :
        /\ StoredWith(k, 1)
        /\ Len(Log(k)) >= 3
        /\ last.key = k
        /\ NotFound(last.reply)

(***************************************************************************)
(* C6  TTL preservation: a decrement that leaves viewsRemaining > 0 leaves *)
(* the record with the time-to-live the store reported before it: not      *)
(* another value, not removed, and none if it had none.                    *)
(***************************************************************************)
C6_TTLPreserved ==
    last.op = "decrement" /\ IsResult(last.reply) /\ ~Burned(last.reply) =>
        Seconds(last.post.pttl) = Seconds(last.pre.pttl)

(***************************************************************************)
(* C7  Increment ceiling: from an unset counter, the increment             *)
(* transactions that pass max_count = m return 1, 2, ..., m and then -1;   *)
(* the rejected ones read the count m and leave it at m.                   *)
(***************************************************************************)
C7_IncrementCeiling ==
    \A k \in Keys : \A m \in 1..MaxCount :
        hist[k].max = m =>
            /\ \A i \in 1..Len(Log(k)) :
                  /\ Log(k)[i].reply = LuaNumber(IF i <= m THEN i ELSE -1)
                  /\ i > m => Count([val |-> Log(k)[i].read]) = m
            /\ Present(store[k]) =>
                  Count(store[k]) = (IF Len(Log(k)) <= m THEN Len(Log(k)) ELSE m)

\* max_count = 3: three increments, and a fourth that was rejected
C7_Witness ==
    \E k \in Keys :
        /\ hist[k].max = 3
        /\ Len(Log(k)) = 4
        /\ Log(k)[4].reply = LuaNumber(-1)
        /\ Present(store[k])
        /\ Count(store[k]) = 3

(***************************************************************************)
(* C8  Increment expiry-once: an increment transaction changes the         *)
(* counter's expiry only when it takes the counter from absent to 1, and   *)
(* then sets it to expire_seconds; one that returns a count > 1, -1 or an  *)
(* error leaves the expiry as it was.                                      *)
(***************************************************************************)
C8_ExpiryOnce ==
    last.op = "increment" =>
        \/ last.post.pttl = last.pre.pttl
        \/ /\ last.pre = Absent
           /\ last.reply = LuaNumber(1)
           /\ Count(last.post) = 1
           /\ last.post.pttl = tonumber(last.argv2).num * 1000

\* a second increment, or a rejected one, on a counter part of whose window
\* has elapsed
C8_Witness ==
    /\ last.op = "increment"
    /\ last.reply \in {LuaNumber(2), LuaNumber(-1)}
    /\ last.pre.pttl > 0
    /\ last.pre.pttl < MaxExpire * 1000
    /\ last.post.pttl = last.pre.pttl

(***************************************************************************)
(* C9  Malformed record: a decrement transaction on a stored value that is *)
(* not JSON replies {error: invalid_json}; on one that is JSON but has no  *)
(* numeric viewsRemaining it replies {error: invalid_viewsRemaining_type}; *)
(* for every stored value the record and its expiry are left unchanged.    *)
(***************************************************************************)
C9_MalformedIsStructuredError ==
    last.op = "decrement" /\ Present(last.pre) /\ ~WellFormed(last.pre.val) =>
        /\ last.reply = (IF last.pre.val.json = Undecodable
                         THEN ErrorReply("invalid_json")
                         ELSE ErrorReply("invalid_viewsRemaining_type"))
        /\ last.post = last.pre

(***************************************************************************)
(* C10  Increment argument validation: a missing or non-numeric max_count  *)
(* or expire_seconds gives {error: missing_arguments}; otherwise one that  *)
(* is <= 0 gives {error: invalid_arguments}; either way the counter and    *)
(* its expiry are unchanged, whatever the current count is.                *)
(***************************************************************************)
ArgMissing(a) == ~(type(a) = "string" /\ type(a.json) = "number")

ArgNotPositive(a) == ~ArgMissing(a) /\ a.json.num <= 0

C10_ArgumentValidation ==
    last.op = "increment" =>
        /\ ArgMissing(last.argv1) \/ ArgMissing(last.argv2) =>
              (last.reply = ErrorReply("missing_arguments") /\ last.post = last.pre)
        /\ /\ ~ArgMissing(last.argv1) /\ ~ArgMissing(last.argv2)
           /\ ArgNotPositive(last.argv1) \/ ArgNotPositive(last.argv2)
           => (last.reply = ErrorReply("invalid_arguments") /\ last.post = last.pre)

\* expire_seconds = 0 passed while the counter already is at max_count: the
\* reply is the error, not -1
C10_Witness ==
    /\ last.op = "increment"
    /\ last.reply = ErrorReply("invalid_arguments")
    /\ Present(last.pre)
    /\ ~ArgMissing(last.argv1)
    /\ Count(last.pre) >= last.argv1.json.num
    /\ last.argv1.json.num >= 1

(***************************************************************************)
(* C11  Burn clamps to zero: a decrement of a record whose stored          *)
(* viewsRemaining is 1, 0 or negative deletes the record and returns       *)
(* burned = true with secret.viewsRemaining exactly 0; no burned reply     *)
(* carries another value, and such a record burns on its first decrement.  *)
(***************************************************************************)
C11_BurnClampsToZero ==
    last.op = "decrement" =>
        /\ (WellFormed(last.pre.val) /\ Views(last.pre.val) <= 1) =>
              /\ Burned(last.reply)
              /\ Returned(last.reply) = 0
              /\ ~Present(last.post)
        /\ Burned(last.reply) => Returned(last.reply) = 0

\* the first decrement of a record stored with a negative counter burned it
C11_Witness ==
    /\ last.op = "decrement"
    /\ WellFormed(last.pre.val)
    /\ Views(last.pre.val) < 0
    /\ Len(Log(last.key)) = 1
    /\ Burned(last.reply)
    /\ Returned(last.reply) = 0

(***************************************************************************)
(* Vocabulary of the properties of crypto.ts.                              *)
(***************************************************************************)
\* the call made last is a decrypt / an encrypt / a base64ToKey
Decrypted == outcome.op = "decrypt"

Encrypted == outcome.op = "encrypt"

Imported == outcome.op = "base64ToKey"

Returned_(result) == result.error = "none"

Threw(result, kind) == result.error = kind

\* decrypt got the key the secret was encrypted with
RightKey == outcome.key = Sealed.key

\* decrypt got the ciphertext / the iv that encrypt returned
SameCiphertext == outcome.received.ciphertext = Sealed.data.ciphertext

SameIV == outcome.received.iv = Sealed.data.iv

(***************************************************************************)
(* C12  Round trip: for every plaintext p within the size limit and every  *)
(* key k, decrypting with k the ciphertext and iv that encrypt(p, k)       *)
(* returned gives back exactly p.                                          *)
(***************************************************************************)
C12_RoundTrip ==
    Decrypted /\ RightKey /\ SameCiphertext /\ SameIV =>
        /\ Returned_(outcome.result)
        /\ outcome.result.value = Sealed.plaintext

OneCharacterReplaced ==
    /\ Len(outcome.received.ciphertext) = Len(Sealed.data.ciphertext)
    /\ Cardinality({i \in 1..Len(Sealed.data.ciphertext) :
                       outcome.received.ciphertext[i] # Sealed.data.ciphertext[i]}) = 1

\* the bytes the ciphertext decrypt got decodes to, and those of the returned one
ReceivedBytes == base64UrlToBuffer(outcome.received.ciphertext)

SealedBytes == base64UrlToBuffer(Sealed.data.ciphertext)

\* what decrypt gives for the ciphertext and iv as returned, with the right key
Opened == Ok(TextDecoder_decode(TextEncoder_encode(Sealed.plaintext)))

(***************************************************************************)
(* C14  Tamper detection, as stated: decrypt, called with the right key    *)
(* and the returned iv on the returned ciphertext with any one character   *)
(* replaced by a different one, throws DecryptionError.                    *)
(***************************************************************************)
C14_TamperDetected ==
    Decrypted /\ RightKey /\ SameIV /\ OneCharacterReplaced =>
        Threw(outcome.result, "DecryptionError")

(***************************************************************************)
(* C14  Tamper detection, amended: with one character of the ciphertext    *)
(* replaced, decrypt throws InvalidBase64Error when the text no longer     *)
(* decodes, returns what it returns for the untouched ciphertext when the  *)
(* text decodes to the same bytes, and throws DecryptionError in every     *)
(* other case; it never returns anything else.                             *)
(***************************************************************************)
C14_TamperOutcome ==
    Decrypted /\ RightKey /\ SameIV /\ OneCharacterReplaced =>
        IF ~Returned_(ReceivedBytes) THEN Threw(outcome.result, "InvalidBase64Error")
        ELSE IF ReceivedBytes.value = SealedBytes.value THEN outcome.result = Opened
        ELSE Threw(outcome.result, "DecryptionError")

\* a replaced character changed the bytes and decrypt threw DecryptionError
C14_Witness ==
    /\ Decrypted /\ RightKey /\ SameIV /\ OneCharacterReplaced
    /\ Returned_(ReceivedBytes)
    /\ ReceivedBytes.value # SealedBytes.value
    /\ Threw(outcome.result, "DecryptionError")

\* decrypt got another iv than the returned one, of the valid length
ReceivedIV == base64UrlToBuffer(outcome.received.iv)

WrongIV == ~SameIV /\ Returned_(ReceivedIV) /\ Len(ReceivedIV.value) = IV_LENGTH

\* decrypt got the returned ciphertext cut short
CutShort ==
    /\ Len(outcome.received.ciphertext) < Len(Sealed.data.ciphertext)
    /\ outcome.received.ciphertext
         = SubSeq(Sealed.data.ciphertext, 1, Len(outcome.received.ciphertext))

(***************************************************************************)
(* C15  Uniform decryption failure, as stated: decrypt with a wrong key,   *)
(* a tampered ciphertext, a wrong iv of valid length or a truncated        *)
(* ciphertext throws DecryptionError, never another error.                 *)
(***************************************************************************)
C15_UniformFailure ==
    /\ Decrypted
    /\ SameIV \/ WrongIV
    /\ ~RightKey \/ OneCharacterReplaced \/ WrongIV \/ CutShort
    => Threw(outcome.result, "DecryptionError")

(***************************************************************************)
(* C15  Uniform decryption failure, amended: when ciphertext and iv decode *)
(* and the iv has 12 bytes, decrypt throws DecryptionError for a wrong     *)
(* key, a wrong iv and every ciphertext, tampered or truncated, whose      *)
(* bytes are not the returned ones; a ciphertext that does not decode      *)
(* gives InvalidBase64Error; decrypt throws nothing but its typed errors.  *)
(***************************************************************************)
C15_FailureKinds ==
    Decrypted =>
        /\ outcome.result.error \in
              {"none", "DecryptionError", "InvalidBase64Error", "InvalidIVError"}
        /\ ~Returned_(ReceivedBytes) => Threw(outcome.result, "InvalidBase64Error")
        /\ /\ Returned_(ReceivedBytes)
           /\ Returned_(ReceivedIV) /\ Len(ReceivedIV.value) = IV_LENGTH
           /\ ~RightKey \/ WrongIV \/ ReceivedBytes.value # SealedBytes.value
           => Threw(outcome.result, "DecryptionError")

\* a ciphertext cut short that still decodes made decrypt throw DecryptionError
C15_Witness ==
    /\ Decrypted /\ RightKey /\ SameIV /\ CutShort
    /\ Returned_(ReceivedBytes)
    /\ Threw(outcome.result, "DecryptionError")

\* base64ToKey got a text; the bytes that text decodes to
IsText == outcome.base64.type = "string"

KeyBytes == base64UrlToBuffer(outcome.base64.text)

(***************************************************************************)
(* C16  Key length: base64ToKey returns a key only for a text that decodes *)
(* to exactly 32 bytes, and the key has those bytes; a text that decodes   *)
(* to another length (16, 64, ...) throws InvalidKeyError; an empty text   *)
(* or a value that is no text throws InvalidKeyError; a text that does not *)
(* decode throws InvalidBase64Error, whatever its length.                  *)
(***************************************************************************)
C16_KeyLength ==
    Imported =>
        IF ~IsText THEN Threw(outcome.result, "InvalidKeyError")
        ELSE IF outcome.base64.text = <<>> THEN Threw(outcome.result, "InvalidKeyError")
        ELSE IF ~Returned_(KeyBytes) THEN Threw(outcome.result, "InvalidBase64Error")
        ELSE IF Len(KeyBytes.value) # KEY_BYTES
             THEN Threw(outcome.result, "InvalidKeyError")
        ELSE outcome.result = Ok(CryptoKey(KeyBytes.value))

\* a text that decodes to 64 bytes was refused with InvalidKeyError
C16_Witness ==
    /\ Imported
    /\ IsText
    /\ Returned_(KeyBytes)
    /\ Len(KeyBytes.value) = 2 * KEY_BYTES
    /\ Threw(outcome.result, "InvalidKeyError")

\* the size of the plaintext encrypt got, in encoded bytes, and the limit
\* its options set
EncodedBytes == Len(TextEncoder_encode(outcome.plaintext))

Limit == IF outcome.options = JsUndefined THEN 1048576 ELSE outcome.options.maxBytes

(***************************************************************************)
(* C17  Payload limit: encrypt succeeds when the plaintext has at most     *)
(* maxBytes encoded bytes, at exactly maxBytes too, and throws             *)
(* PayloadTooLargeError from maxBytes + 1 bytes on; the size is the number *)
(* of UTF-8 bytes, the limit is 1 MiB when no option is given, and when    *)
(* the payload is refused no IV has been drawn.                            *)
(***************************************************************************)
C17_PayloadLimit ==
    Encrypted =>
        /\ EncodedBytes <= Limit =>
              /\ Returned_(outcome.result)
              /\ outcome.result.drawn = 1
              /\ encrypted # <<>>
        /\ EncodedBytes > Limit =>
              /\ Threw(outcome.result, "PayloadTooLargeError")
              /\ outcome.result.drawn = 0
              /\ encrypted = <<>>

\* a plaintext of fewer characters than bytes, of exactly maxBytes bytes,
\* was encrypted
C17_Witness ==
    /\ Encrypted
    /\ outcome.options # JsUndefined
    /\ EncodedBytes = outcome.options.maxBytes
    /\ Len(outcome.plaintext) < EncodedBytes
    /\ Returned_(outcome.result)

(***************************************************************************)
(* C18  Version fail-closed: encrypt always returns version = 1, and       *)
(* decrypting an EncryptedData whose version is not 1 fails: no plaintext  *)
(* is returned for it.                                                     *)
(***************************************************************************)
C18_VersionFailClosed ==
    /\ Encrypted /\ Returned_(outcome.result) => outcome.result.value.version = 1
    /\ Decrypted /\ outcome.received.version # 1 => ~Returned_(outcome.result)

\* the call made last is one of a result parser
ParsedRaw == outcome.op \in {"parseDecrementResult", "parseIncrementResult"}

\* the parser was given nothing: null or undefined
GivenNothing == outcome.raw = JsNull \/ outcome.raw = JsUndefined

\* a result of the type the parser promises: {secret, burned: boolean} of
\* parseDecrementResult, a number of parseIncrementResult
TypedResult ==
    /\ Returned_(outcome.result)
    /\ IF outcome.op = "parseDecrementResult"
       THEN /\ outcome.result.value.type = "object"
            /\ HasProperty(outcome.result.value, KEY_secret)
            /\ HasProperty(outcome.result.value, KEY_burned)
            /\ GetProperty(outcome.result.value, KEY_burned).type = "boolean"
       ELSE outcome.result.value.type = "number"

(***************************************************************************)
(* C19  Not-found is a value: parseDecrementResult and parseIncrementResult *)
(* return null, and throw nothing, exactly when the raw result is null or  *)
(* undefined; for every other raw result they return a result of their     *)
(* type, which is not null, or throw InvalidResultError.                   *)
(***************************************************************************)
C19_NotFoundIsNull ==
    ParsedRaw =>
        /\ GivenNothing <=> outcome.result = Ok(JsNull)
        /\ ~GivenNothing => TypedResult \/ Threw(outcome.result, "InvalidResultError")

\* undefined came back from the store and the parser returned null
C19_Witness ==
    /\ ParsedRaw
    /\ outcome.raw = JsUndefined
    /\ outcome.result = Ok(JsNull)

\* part is a part of text
Contains(text, part) ==
    \E i \in 0..(Len(text) - Len(part)) : SubSeq(text, i + 1, i + Len(part)) = part

\* the raw result is {error: reason}, as a value or as its JSON text
IsErrorPayload(raw, reason) ==
    \/ raw = ErrorObject(reason)
    \/ raw = JsString(JSON_stringify(ErrorObject(reason)))
    \/ raw = JsString(<<" ">> \o JSON_stringify(ErrorObject(reason)) \o <<"\n">>)

(***************************************************************************)
(* C20  Protocol-error payloads: given {error: reason} with a string       *)
(* reason, as a value or as JSON text, both parsers throw                  *)
(* InvalidResultError with a message that contains the reason; they never  *)
(* return it as a result.                                                  *)
(***************************************************************************)
C20_ErrorPayloadThrows ==
    ParsedRaw =>
        \A reason \in Reasons :
            IsErrorPayload(outcome.raw, reason) =>
                /\ Threw(outcome.result, "InvalidResultError")
                /\ Contains(outcome.result.message, reason)
                /\ outcome.result.message = LuaScriptErrorPrefix \o reason

\* parseIncrementResult threw on the JSON text of {error: missing_arguments}
C20_Witness ==
    /\ outcome.op = "parseIncrementResult"
    /\ outcome.raw = JsString(JSON_stringify(ErrorObject(REASON_missing_arguments)))
    /\ Threw(outcome.result, "InvalidResultError")
    /\ Contains(outcome.result.message, REASON_missing_arguments)

\* the raw result is a string that is no JSON text
NotJson(raw) == raw.type = "string" /\ JSON_parse(raw.text).error # "none"

\* the value a parser looks at: what the string encodes, or the raw result
Presented(raw) ==
    IF raw.type = "string" /\ ~NotJson(raw) THEN JSON_parse(raw.text).value ELSE raw

\* v is an object that has the property key
Holds(v, key) == v.type = "object" /\ \E i \in 1..Len(v.fields) : v.fields[i].key = key

\* v is an object with a secret and a burned property, burned a boolean
WellShaped(v) ==
    /\ Holds(v, KEY_secret)
    /\ Holds(v, KEY_burned)
    /\ \A i \in 1..Len(v.fields) : v.fields[i].key = KEY_burned => v.fields[i].value.type = "boolean"

\* what the claim lists: a missing field, a burned that is no boolean, an
\* array, a number, a boolean, a string that is no JSON text
Malformed(raw) ==
    \/ NotJson(raw)
    \/ Presented(raw).type \in {"array", "number", "boolean"}
    \/ Presented(raw).type = "object" /\ ~WellShaped(Presented(raw))

(***************************************************************************)
(* C21  Decrement result validation: parseDecrementResult returns a result *)
(* only when the value, parsed if it came as a string, is an object with   *)
(* a secret and a burned property, burned a boolean, and then returns that *)
(* value; a missing field, a burned that is no boolean, an array, a        *)
(* number, a boolean and a string that is no JSON raise InvalidResultError.*)
(***************************************************************************)
C21_DecrementValidation ==
    outcome.op = "parseDecrementResult" =>
        /\ (Returned_(outcome.result) /\ outcome.result.value # JsNull) =>
              /\ WellShaped(Presented(outcome.raw))
              /\ outcome.result.value = Presented(outcome.raw)
        /\ Malformed(outcome.raw) => Threw(outcome.result, "InvalidResultError")
        /\ NotJson(outcome.raw) => outcome.result.message = DecrementNotJson

\* {secret, burned: 1} was refused
C21_Witness ==
    /\ outcome.op = "parseDecrementResult"
    /\ Holds(Presented(outcome.raw), KEY_secret)
    /\ Holds(Presented(outcome.raw), KEY_burned)
    /\ GetProperty(Presented(outcome.raw), KEY_burned).type = "number"
    /\ Threw(outcome.result, "InvalidResultError")

\* the numbers a raw result can be or encode
Counts == -1..MaxCount

\* text is the JSON text of a number, bare or with white space around it
IsNumberText(text, n) ==
    \/ text = JSON_stringify(JsNumber(n))
    \/ text = <<" ">> \o JSON_stringify(JsNumber(n)) \o <<"\n">>

\* raw is a number or the text of one
Numeric(raw) ==
    \/ raw.type = "number"
    \/ raw.type = "string" /\ \E n \in Counts : IsNumberText(raw.text, n)

\* raw is {error: reason}, as a value or as JSON text
ErrorShape(raw) == \E reason \in Reasons : IsErrorPayload(raw, reason)

(***************************************************************************)
(* C22  Increment result parsing: parseIncrementResult returns n for the   *)
(* number n and for the text of the number n, -1 included, and raises      *)
(* InvalidResultError for every other input that is neither null nor       *)
(* undefined nor an {error: reason} payload, every string that is not      *)
(* exactly the text of a number included.                                  *)
(***************************************************************************)
C22_IncrementParsing ==
    outcome.op = "parseIncrementResult" =>
        /\ outcome.raw.type = "number" => outcome.result = Ok(outcome.raw)
        /\ \A n \in Counts :
              (outcome.raw.type = "string" /\ IsNumberText(outcome.raw.text, n)) =>
                  outcome.result = Ok(JsNumber(n))
        /\ (~GivenNothing /\ ~Numeric(outcome.raw) /\ ~ErrorShape(outcome.raw)) =>
              Threw(outcome.result, "InvalidResultError")

\* the characters A-Z, a-z, 0-9, "-" and "_"
UrlSafe == (65..90) \cup (97..122) \cup (48..57) \cup {45, 95}

(***************************************************************************)
(* C23  Base64url codec round trip: for every byte buffer b the encoder's  *)
(* text has only characters of A-Z a-z 0-9 _ - and no "=", decoding it     *)
(* gives exactly b, and decoding the same text written with "+" and "/"    *)
(* in place of "-" and "_" gives b as well.                                *)
(***************************************************************************)
C23_CodecRoundTrip ==
    /\ outcome.op = "bufferToBase64Url" =>
          \A i \in 1..Len(outcome.result.value) : outcome.result.value[i] \in UrlSafe
    /\ outcome.op = "base64UrlToBuffer" =>
          /\ outcome.text \in {outcome.encoded, Standard(outcome.encoded)}
          /\ outcome.result = Ok(outcome.bytes)

\* two bytes, encoded with "-" and "_", came back from the text with "+", "/"
C23_Witness ==
    /\ outcome.op = "base64UrlToBuffer"
    /\ Len(outcome.bytes) = 2
    /\ \E i \in 1..Len(outcome.encoded) : outcome.encoded[i] = MINUS
    /\ \E i \in 1..Len(outcome.encoded) : outcome.encoded[i] = UNDERSCORE
    /\ outcome.text = Standard(outcome.encoded)
    /\ outcome.text # outcome.encoded
    /\ outcome.result = Ok(outcome.bytes)

(***************************************************************************)
(* C24  A decrement that does not burn changes only the counter: when the  *)
(* stored viewsRemaining is v > 1, the record is rewritten with            *)
(* viewsRemaining = v - 1 and every other field as it was, and the secret  *)
(* returned is the record that was stored.                                 *)
(***************************************************************************)
C24_OnlyCounterChanges ==
    (last.op = "decrement" /\ WellFormed(last.pre.val) /\ Views(last.pre.val) > 1) =>
        /\ WellFormed(last.post.val)
        /\ last.post.val.json =
              [last.pre.val.json EXCEPT !.viewsRemaining = LuaNumber(@.num - 1)]
        /\ IsResult(last.reply)
        /\ last.reply.json.secret = last.post.val.json

\* a reply went through its parser
Handed == ParsedRaw /\ "reply" \in DOMAIN outcome

(***************************************************************************)
(* C25  Script-to-parser totality: whatever the decrement script returns   *)
(* (nil, the JSON text of {secret, burned}, the JSON text of {error}) and  *)
(* whatever the increment script returns (a positive count, -1, the JSON   *)
(* text of {error}), handed over as raw text or decoded, the parser gives  *)
(* null for nil, the typed result for a result, InvalidResultError for an  *)
(* error, and never another exception or a result of another type.         *)
(***************************************************************************)
C25_ScriptToParser ==
    Handed =>
        /\ outcome.result.error \in {"none", "InvalidResultError"}
        /\ NotFound(outcome.reply) => outcome.result = Ok(JsNull)
        /\ IsResult(outcome.reply) =>
              /\ TypedResult
              /\ outcome.result = Ok(DecodedReply(outcome.reply))
              /\ GetProperty(outcome.result.value, KEY_burned).bool = Burned(outcome.reply)
              /\ GetProperty(GetProperty(outcome.result.value, KEY_secret),
                             KEY_viewsRemaining).num = Returned(outcome.reply)
        /\ type(outcome.reply) = "number" =>
              /\ TypedResult
              /\ outcome.result = Ok(JsNumber(outcome.reply.num))
        /\ IsError(outcome.reply) =>
              /\ Threw(outcome.result, "InvalidResultError")
              /\ outcome.result.message =
                    LuaScriptErrorPrefix \o ReasonText(outcome.reply.json.error)

\* the count 2 came as the text "2" and was parsed to the number 2
C25_Witness ==
    /\ Handed
    /\ outcome.op = "parseIncrementResult"
    /\ outcome.form = "raw"
    /\ outcome.reply = LuaNumber(2)
    /\ outcome.raw.type = "string"
    /\ outcome.result = Ok(JsNumber(2))

\* the key holds a record whose viewsRemaining is at least 1
Positive(e) == WellFormed(e.val) /\ Views(e.val) >= 1

(***************************************************************************)
(* C26  The stored counter stays positive: a record stored with a positive *)
(* viewsRemaining and changed by decrement transactions only has, as long  *)
(* as it is present, a viewsRemaining >= 1; no transaction writes back a   *)
(* record with viewsRemaining = 0 or below.                                *)
(***************************************************************************)
C26_CounterStaysPositive ==
    [][\A k \in SecretKeys :
          /\ (Positive(store[k]) /\ Present(store'[k])) => Positive(store'[k])
          /\ (Present(store'[k]) /\ store'[k].val # store[k].val) => Positive(store'[k])]_vars

\* a record stored with viewsRemaining = 2 was written back with 1
C26_Witness ==
    /\ last.op = "decrement"
    /\ Positive(last.pre)
    /\ Views(last.pre.val) = 2
    /\ Present(store[last.key])
    /\ store[last.key] = last.post
    /\ Views(last.post.val) = 1

\* the transactions logged for k that returned the count n
ReturnedCount(k, n) == {i \in 1..Len(Log(k)) : Log(k)[i].reply = LuaNumber(n)}

\* the transactions logged for k that returned a count
Admitted(k) == {i \in 1..Len(Log(k)) : Log(k)[i].reply.num >= 1}

(***************************************************************************)
(* C27  Rate-limit bound under concurrency: for a counter changed by       *)
(* increment transactions only, all passing max_count = m, whatever the    *)
(* number of callers in flight together and the order they run in: the     *)
(* stored count never exceeds m; within a window each of the counts 1..m   *)
(* is returned at most once, at most m transactions return a count, every  *)
(* other one returns -1, and when one was rejected exactly m returned a    *)
(* count.                                                                  *)
(***************************************************************************)
C27_RateLimitBound ==
    \A k \in CounterKeys : \A m \in 1..MaxCount :
        hist[k].max = m =>
            /\ Present(store[k]) => Count(store[k]) <= m
            /\ \A i \in 1..Len(Log(k)) :
                  /\ type(Log(k)[i].reply) = "number"
                  /\ Log(k)[i].reply.num \in (1..m) \cup {-1}
            /\ \A n \in 1..m : Cardinality(ReturnedCount(k, n)) <= 1
            /\ Cardinality(Admitted(k)) <= m
            /\ ReturnedCount(k, -1) # {} => Cardinality(Admitted(k)) = m

\* max_count = 2, four callers, some in flight together: two were admitted
\* and two rejected
C27_Witness ==
    \E k \in CounterKeys :
        /\ hist[k].max = 2
        /\ hist[k].overlap
        /\ Len(Log(k)) = 4
        /\ Cardinality(Admitted(k)) = 2
        /\ Cardinality(ReturnedCount(k, -1)) = 2

(***************************************************************************)
(* C28  No immortal rate-limit counter: in a store whose counter keys are  *)
(* created and changed by the increment transaction only, every counter    *)
(* key that exists has an expiry; count and expiry are created together,   *)
(* so no counter is left at or above its limit without one.                *)
(***************************************************************************)
C28_NoImmortalCounter ==
    \A k \in CounterKeys : Present(store[k]) => store[k].pttl > 0

\* the call made last was rejected / returned a count
Rejected == last.op = "increment" /\ last.reply = LuaNumber(-1)

Counted == last.op = "increment" /\ type(last.reply) = "number" /\ last.reply.num >= 1

\* the call made last passed a window of whole seconds
WholeWindow == last.argv2 \in WindowTexts

(***************************************************************************)
(* C29  Window reset: after the counter's expiry has elapsed and the store *)
(* has removed the key, the next increment transaction returns 1 and sets  *)
(* an expiry of expire_seconds; a rejected call leaves count and expiry as *)
(* they are; hence a caller rejected with -1 that keeps calling is         *)
(* eventually admitted again.                                              *)
(***************************************************************************)
C29_WindowReset ==
    /\ []((last.op = "increment" /\ WholeWindow /\ ~Present(last.pre)) =>
            /\ last.reply = LuaNumber(1)
            /\ last.post = Entry(LuaString(LuaNumber(1)), tonumber(last.argv2).num * 1000))
    /\ [](Rejected => last.post = last.pre)
    /\ (Rejected ~> Counted)

\* a call was rejected, the key has expired since, and no call was made yet
C29_Witness ==
    /\ Rejected
    /\ Present(last.post)
    /\ ~Present(store[last.key])

\* what a transaction gives on the store st
Transaction(st, op, key, argv2) ==
    IF op = "decrement" THEN ATOMIC_DECREMENT_SCRIPT(st, key)
    ELSE ATOMIC_INCREMENT_WITH_LIMIT_SCRIPT(st, key, LuaString(LuaNumber(MaxCount)), argv2)

\* t1 on k1 and t2 on k2 leave the same store and get the same replies in
\* either order
Commute(op1, k1, op2, k2, argv2) ==
    LET first == Transaction(store, op1, k1, argv2)
        then == Transaction(first.store, op2, k2, argv2)
        second == Transaction(store, op2, k2, argv2)
        after == Transaction(second.store, op1, k1, argv2)
    IN  /\ then.store = after.store
        /\ first.reply = after.reply
        /\ then.reply = second.reply

\* this step runs a transaction
Ran == inflight' # inflight /\ calls' = calls

(***************************************************************************)
(* C30  Single-key frame: a decrement or increment transaction called with *)
(* the key k leaves the value and the expiry of every other key as they    *)
(* are, so two transactions on different keys give the same store and the  *)
(* same replies in either order.                                           *)
(***************************************************************************)
C30_SingleKeyFrame ==
    /\ [][Ran => \A k \in Keys \ {last'.key} : store'[k] = store[k]]_vars
    /\ [](\A k1, k2 \in Keys : \A op1, op2 \in {"decrement", "increment"} :
            \A argv2 \in WindowTexts :
                k1 # k2 => Commute(op1, k1, op2, k2, argv2))

\* a transaction changed its key while the other key held a value
C30_Witness ==
    /\ last.op # "none"
    /\ last.pre # last.post
    /\ \E k \in Keys \ {last.key} : Present(store[k])

====
